---------------------------- MODULE Spec2Model ----------------------------
(***************************************************************************)
(* PCI configuration-space header decoder and renderer.                    *)
(*                                                                         *)
(* The module models print_pci_header and int_2_hexstr of                  *)
(* src/pci_header.c (user space, port I/O) and of src/pci_dev.c (kernel    *)
(* module), together with the two layout tables type_0_header and          *)
(* type_1_header.                                                          *)
(*                                                                         *)
(* Machine integers.  A uint32_t is a sequence of 8 nibbles and a uint64_t *)
(* a sequence of 16 nibbles, least significant nibble first (index 1 holds *)
(* bits 3:0).  All shifts of the code are by multiples of 4 bits, so a     *)
(* shift moves whole nibbles; a value that leaves the width is dropped,    *)
(* as the hardware does.  The build is LP64 (x86-64 Linux): `1L` is 64     *)
(* bits wide, as in the sample output recorded in the sources.             *)
(*                                                                         *)
(* Text.  The output is a sequence of finished lines; a line is a sequence *)
(* of tokens, each token the text of one character or of one string the    *)
(* code prints as a unit.  The character '|' is always a token of its own. *)
(***************************************************************************)
EXTENDS Integers, Naturals, Sequences, FiniteSets, TLC

(***************************************************************************)
(* Bounds of the model.                                                    *)
(***************************************************************************)
\* print_pci_header is called this many times in a row on the same device.
MaxCalls == 2
\* Number of generated register patterns (PatternDevice) besides the
\* documented sample devices.
NumPatterns == 3

(***************************************************************************)
(* Machine integers                                                        *)
(***************************************************************************)
NibblesU32 == 8
NibblesU64 == 16

Nibble == 0..15

RECURSIVE BitAnd(_, _)
\* a & b on non-negative integers
BitAnd(a, b) ==
    IF a = 0 \/ b = 0 THEN 0
    ELSE (a % 2) * (b % 2) + 2 * BitAnd(a \div 2, b \div 2)

\* The uint32_t whose upper and lower 16 bits are hi and lo.
U32(hi, lo) ==
    [k \in 1..NibblesU32 |->
        IF k <= 4 THEN (lo \div (16 ^ (k - 1))) % 16
                  ELSE (hi \div (16 ^ (k - 5))) % 16]

\* The uint32_t with the bytes b0 (bits 7:0) .. b3 (bits 31:24).
U32Bytes(b0, b1, b2, b3) == U32(b3 * 256 + b2, b1 * 256 + b0)

\* Integer promotion uint32_t -> uint64_t
ZeroExtend(v) == [k \in 1..NibblesU64 |-> IF k <= NibblesU32 THEN v[k] ELSE 0]

\* Conversion uint64_t -> uint32_t (the assignment to bf_value)
Truncate32(x) == [k \in 1..NibblesU32 |-> x[k]]

\* x << bits, for a value of Len(x) nibbles
ShiftLeft(x, bits) ==
    [k \in 1..Len(x) |-> IF k > bits \div 4 THEN x[k - bits \div 4] ELSE 0]

\* x >> bits (logical), for a value of Len(x) nibbles
ShiftRight(x, bits) ==
    [k \in 1..Len(x) |-> IF k + bits \div 4 <= Len(x) THEN x[k + bits \div 4] ELSE 0]

\* x - 1 modulo 2^(4*Len(x)): borrow through the low zero nibbles
MinusOne(x) ==
    LET nz == {k \in 1..Len(x) : x[k] # 0}
        low == IF nz = {} THEN Len(x) + 1
               ELSE CHOOSE k \in nz : \A m \in nz : k <= m
    IN  [k \in 1..Len(x) |->
            IF k < low THEN 15 ELSE IF k = low THEN x[k] - 1 ELSE x[k]]

\* x & y on two values of the same width
AndWord(x, y) == [k \in 1..Len(x) |-> BitAnd(x[k], y[k])]

\* value > 0
NonZero(x) == \E k \in 1..Len(x) : x[k] # 0

\* The 64-bit constant 1L
OneL == [k \in 1..NibblesU64 |-> IF k = 1 THEN 1 ELSE 0]

(***************************************************************************)
(* src/p2sb_user.c: the tests of a base address register                   *)
(* typedef enum { F, T } boolean: the two values are written "F" and "T".  *)
(***************************************************************************)
\* return (bar & 0x00000001) ? F : T;
isMemorySpace(b) ==
    IF NonZero(AndWord(b, U32(\h0000, \h0001))) THEN "F" ELSE "T"

\* return (isMemorySpace(bar) == T) ? ((bar & 0x00000006) ? T : F) : F;
isMemory64bit(b) ==
    IF isMemorySpace(b) = "T"
    THEN (IF NonZero(AndWord(b, U32(\h0000, \h0006))) THEN "T" ELSE "F")
    ELSE "F"

(***************************************************************************)
(* Layout tables                                                           *)
(***************************************************************************)
\* An initialiser with the two numbers in the wrong order.
BFSizeBeforeOffset(n, o, s) == [name |-> n, offset |-> s, size |-> o]

\* struct config_space_bitfield { char name[64]; unsigned offset, size; }
BF(n, o, s) == [name |-> n, offset |-> o, size |-> s]

\* The Type 0 table with the Class Code entry moved to 0x9 and the Type 1
\* table left as it is: the two copies of the common rows drift apart.
Type0ClassCodeMoved == <<
    BF("Vendor ID",                \h0,   2),
    BF("Device ID",                \h2,   2),
    BF("Command",                  \h4,   2),
    BF("Status",                   \h6,   2),
    BF("Revision ID",              \h8,   1),
    BF("Class Code",               \h9,   3),
    BF("Cache Line S",             \hC,   1),
    BF("Lat. Timer",               \hD,   1),
    BF("Header Type",              \hE,   1),
    BF("BIST",                     \hF,   1),
    BF("BAR 0",                    \h10,  4),
    BF("BAR 1",                    \h14,  4),
    BF("BAR 2",                    \h18,  4),
    BF("BAR 3",                    \h1C,  4),
    BF("BAR 4",                    \h20,  4),
    BF("BAR 5",                    \h24,  4),
    BF("Cardbus CIS Pointer",      \h28,  4),
    BF("Subsystem Vendor ID",      \h2C,  2),
    BF("Subsystem ID",             \h2E,  2),
    BF("Expansion ROM Address",    \h30,  4),
    BF("Cap. Pointer",             \h34,  1),
    BF("Reserved",                 \h35,  3),
    BF("Reserved",                 \h38,  4),
    BF("IRQ",                      \h3C,  1),
    BF("IRQ Pin",                  \h3D,  1),
    BF("Min Gnt.",                 \h3E,  1),
    BF("Max Lat.",                 \h3F,  1),
    BF("End",                      \h40,  5)
>>

\* PCI Type 0 header
type_0_header == <<
    BF("Vendor ID",                \h0,   2),
    BF("Device ID",                \h2,   2),
    BF("Command",                  \h4,   2),
    BF("Status",                   \h6,   2),
    BF("Revision ID",              \h8,   1),
    BF("Class Code",               \hA,   3),
    BF("Cache Line S",             \hC,   1),
    BF("Lat. Timer",               \hD,   1),
    BF("Header Type",              \hE,   1),
    BF("BIST",                     \hF,   1),
    BF("BAR 0",                    \h10,  4),
    BF("BAR 1",                    \h14,  4),
    BF("BAR 2",                    \h18,  4),
    BF("BAR 3",                    \h1C,  4),
    BF("BAR 4",                    \h20,  4),
    BF("BAR 5",                    \h24,  4),
    BF("Cardbus CIS Pointer",      \h28,  4),
    BF("Subsystem Vendor ID",      \h2C,  2),
    BF("Subsystem ID",             \h2E,  2),
    BF("Expansion ROM Address",    \h30,  4),
    BF("Cap. Pointer",             \h34,  1),
    BF("Reserved",                 \h35,  3),
    BF("Reserved",                 \h38,  4),
    BF("IRQ",                      \h3C,  1),
    BF("IRQ Pin",                  \h3D,  1),
    BF("Min Gnt.",                 \h3E,  1),
    BF("Max Lat.",                 \h3F,  1),
    BF("End",                      \h40,  5)
>>

\* PCI Type 1, PCI-to-PCI bridge, header
type_1_header == <<
    BF("Vendor ID",                \h0,   2),
    BF("Device ID",                \h2,   2),
    BF("Command",                  \h4,   2),
    BF("Status",                   \h6,   2),
    BF("Revision ID",              \h8,   1),
    BF("Class Code",               \hA,   3),
    BF("Cache Line S",             \hC,   1),
    BF("Lat. Timer",               \hD,   1),
    BF("Header Type",              \hE,   1),
    BF("BIST",                     \hF,   1),
    BF("BAR 0",                    \h10,  4),
    BF("BAR 1",                    \h14,  4),
    BF("Primary Bus",              \h18,  1),
    BF("Secondary Bus",            \h19,  1),
    BF("Sub. Bus",                 \h1A,  1),
    BF("Sec Lat timer",            \h1B,  1),
    BF("IO Base",                  \h1C,  1),
    BF("IO Limit",                 \h1D,  1),
    BF("Sec. Status",              \h1E,  2),
    BF("Memory Limit",             \h20,  2),
    BF("Memory Base",              \h22,  2),
    BF("Pref. Memory Limit",       \h24,  2),
    BF("Pref. Memory Base",        \h26,  2),
    BF("Pref. Memory Base U",      \h28,  4),
    BF("Pref. Memory Base L",      \h2C,  4),
    BF("IO Base Upper",            \h30,  2),
    BF("IO Limit Upper",           \h32,  2),
    BF("Cap. Pointer",             \h34,  1),
    BF("Reserved",                 \h35,  3),
    BF("Exp. ROM Base Addr",       \h38,  4),
    BF("IRQ Line",                 \h3C,  1),
    BF("IRQ Pin",                  \h3D,  1),
    BF("Min Gnt.",                 \h3E,  1),
    BF("Max Lat.",                 \h3F,  1),
    BF("End",                      \h40,  5)
>>

\* The two initialisers of types[] in the wrong order.
TypesSwapped == <<"type_1_header", "type_0_header">>

\* struct config_space_bitfield *types[2]
types == <<"type_0_header", "type_1_header">>

\* const char *ctypes[]
ctypes == <<"n Endpoint", " Bridge">>

\* The table a pointer value designates (ptr[k] is TableOf(ptr)[k + 1]).
TableOf(p) == IF p = "type_0_header" THEN type_0_header ELSE type_1_header


\* sizeof(name) where strlen(name) is meant: the size of the array.
SizeofName(s) == 64

\* strlen
strlen(s) == Len(s)

(***************************************************************************)
(* int_2_hexstr                                                            *)
(***************************************************************************)
letters == <<"0", "1", "2", "3", "4", "5", "6", "7",
             "8", "9", "A", "B", "C", "D", "E", "F">>

\* The integer a nibble sequence denotes, for the small values that are
\* used as array indices.
AsIndex(x) == x[1] + 16 * x[2]

\* The constant 0xf as a value of the width of x
MaskF(x) == [k \in 1..Len(x) |-> IF k = 1 THEN 15 ELSE 0]

RECURSIVE CopyValueOffByOne(_, _, _)
\* The loop bound written i > 2: the most significant digit is never copied.
CopyValueOffByOne(value, i, destination) ==
    IF NonZero(value) /\ i > 2
    THEN CopyValueOffByOne(ShiftRight(value, 4), i - 1,
                   [destination EXCEPT
                        ![i + 1] = letters[AsIndex(AndWord(value, MaskF(value))) + 1]])
    ELSE destination

RECURSIVE CopyValue(_, _, _)
\* while((value > 0) && (i>1)){ destination[i] = letters[value & 0xf];
\*                             value = value >> 4; i--; }
\* (destination[i] of the code is destination[i + 1] here)
CopyValue(value, i, destination) ==
    IF NonZero(value) /\ i > 1
    THEN CopyValue(ShiftRight(value, 4), i - 1,
                   [destination EXCEPT
                        ![i + 1] = letters[AsIndex(AndWord(value, MaskF(value))) + 1]])
    ELSE destination

\* strcat where strcpy is meant: the buffer keeps what it held.
StrcpyAppends(destination, source) == destination \o source

\* strcpy(destination, source): the string left in destination
strcpy(destination, source) == source

\* strcat(destination, source): the string left in destination
strcat(destination, source) == destination \o source

RECURSIVE InitString(_, _, _)
\* for(i=0; i<size; i++) strcat(destination, "00");
InitString(destination, i, size) ==
    IF i < size
    THEN InitString(strcat(destination, <<"0", "0">>), i + 1, size)
    ELSE destination

\* void int_2_hexstr(uint32_t value, unsigned int size, char *destination):
\* the string left in destination.
int_2_hexstr(value, size, destination) ==
    CopyValue(value, 2 + 2 * size - 1,
              InitString(strcpy(destination, <<"0", "x">>), 0, size))

(***************************************************************************)
(* Devices: the configuration spaces the register reads are served from.   *)
(* A configuration space is the sequence of its first 16 dwords; the dword *)
(* of register offset w (a multiple of 4) is element w \div 4 + 1.         *)
(***************************************************************************)
\* Endpoint 26:0:0 of the sample output (src/pci_header.c, lines 372-411)
SampleEndpoint ==
    [bus |-> \h26, dev |-> 0, func |-> 0,
     cfg |-> << U32(\h1009, \h10B5), U32(\h0010, \h0007),
                U32(\h0880, \h00B0), U32(\h0000, \h0008),
                U32(\hC200, \h0000), U32(\h0000, \h0000),
                U32(\h0000, \h0000), U32(\h0000, \h0000),
                U32(\h0000, \h0000), U32(\h0000, \h0000),
                U32(\h0000, \h0000), U32(\h9781, \h10B5),
                U32(\h0000, \h0000), U32(\h0000, \h0040),
                U32(\h0000, \h0000), U32(\h0000, \h01FF) >>]

\* Bridge 17:0:0 of the sample output (src/pci_header.c, lines 413-452)
SampleBridge ==
    [bus |-> \h17, dev |-> 0, func |-> 0,
     cfg |-> << U32(\h9781, \h10B5), U32(\h0010, \h0547),
                U32(\h0604, \h00B0), U32(\h0001, \h0008),
                U32(\h0000, \h0000), U32(\h0000, \h0000),
                U32(\h0026, \h1817), U32(\h0000, \h01F1),
                U32(\hC580, \hC200), U32(\hFEF1, \hF001),
                U32(\h0000, \h00D7), U32(\h0000, \h00D7),
                U32(\h0000, \h0000), U32(\h0000, \h0040),
                U32(\h0000, \h0000), U32(\h0013, \h01FF) >>]

\* A hidden or absent device: every read returns all ones.
AllOnes ==
    [bus |-> 0, dev |-> \h1F, func |-> 1,
     cfg |-> [w \in 1..16 |-> U32(\hFFFF, \hFFFF)]]

\* The first documented dword in every window.
VendorDeviceEverywhere ==
    [bus |-> 1, dev |-> 2, func |-> 3,
     cfg |-> [w \in 1..16 |-> U32(\h1009, \h10B5)]]

\* Generated register contents: the byte at address a of pattern k.  The
\* multiplier is odd, so the 64 bytes of one pattern are pairwise distinct.
PatternByte(k, a) == (a * (16 * k + 1) + 37 * k) % 256

PatternDevice(k) ==
    [bus |-> k, dev |-> k, func |-> k,
     cfg |-> [w \in 1..16 |->
                U32Bytes(PatternByte(k, 4 * (w - 1)),
                         PatternByte(k, 4 * (w - 1) + 1),
                         PatternByte(k, 4 * (w - 1) + 2),
                         PatternByte(k, 4 * (w - 1) + 3))]]

Devices ==
    << SampleEndpoint, SampleBridge, AllOnes, VendorDeviceEverywhere >>
    \o [k \in 1..NumPatterns |-> PatternDevice(k)]

\* Header type bytes (uint8_t)
Bytes == 0..255

\* The configuration space with the byte at PCI_HEADER_TYPE (0x0e: bits
\* 23:16 of the dword at 0x0c) replaced by b.
WithHeaderType(cfg, b) ==
    [cfg EXCEPT ![4] = [@ EXCEPT ![5] = b % 16, ![6] = b \div 16]]

(***************************************************************************)
(* Register access (src/pci_header.c, port I/O through 0xCF8 / 0xCFC)      *)
(***************************************************************************)
PCI_HEADER_TYPE == 14

\* outl(PCI_CFGTAG(bus, dev, func, reg), PCI_CFG_ADDR); inl(PCI_CFG_DATA):
\* the dword of the selected function at the dword-aligned register reg.
inl(space, reg) == space[reg \div 4 + 1]

\* uint32_t pci_cfg_reg_read_dword(bus, dev, func, reg)
pci_cfg_reg_read_dword(space, reg) == inl(space, BitAnd(reg, \hFC))

\* uint8_t pci_cfg_reg_read_byte(bus, dev, func, reg)
pci_cfg_reg_read_byte(space, reg) ==
    AsIndex(AndWord(ShiftRight(inl(space, BitAnd(reg, \hFC)), BitAnd(reg, 3) * 8),
                    U32(0, \hFF)))

\* The integer a 16-bit value held in a nibble sequence denotes.
AsWord(x) == x[1] + 16 * x[2] + 256 * x[3] + 4096 * x[4]

\* The word reader with the shift of the byte reader, (reg & 3) * 8.
ReadWordShiftedLikeByte(space, reg) ==
    AsWord(AndWord(ShiftRight(inl(space, BitAnd(reg, \hFC)), BitAnd(reg, 3) * 8),
                   U32(0, \hFFFF)))

\* uint16_t pci_cfg_reg_read_word(bus, dev, func, reg)
pci_cfg_reg_read_word(space, reg) ==
    AsWord(AndWord(ShiftRight(inl(space, BitAnd(reg, \hFC)), BitAnd(reg, 2) * 8),
                   U32(0, \hFFFF)))

\* The header type read from the neighbouring register PCI_LATENCY_TIMER
\* (0x0d) instead of PCI_HEADER_TYPE (0x0e).
ReadLatencyTimerAsHeaderType(space) == pci_cfg_reg_read_byte(space, 13)

\* uint8_t pci_cfg_reg_read_header_type(bus, dev, func)
pci_cfg_reg_read_header_type(space) == pci_cfg_reg_read_byte(space, PCI_HEADER_TYPE)

(***************************************************************************)
(* Text output                                                             *)
(***************************************************************************)
lowercase == <<"0", "1", "2", "3", "4", "5", "6", "7",
               "8", "9", "a", "b", "c", "d", "e", "f">>

\* printf("%x", n) for n < 256
Fmt_x(n) ==
    IF n < 16 THEN <<lowercase[n + 1]>>
    ELSE <<lowercase[n \div 16 + 1], lowercase[(n % 16) + 1]>>

\* printf("0x%02x", n) for n < 256
Fmt_0x02x(n) == <<"0", "x", lowercase[n \div 16 + 1], lowercase[(n % 16) + 1]>>

\* for (j = from; j < to; j++) putchar(' ');
Spaces(from, to) == [k \in 1..(IF to > from THEN to - from ELSE 0) |-> " "]

BannerText ==
    "|    Byte 0    |   Byte 1     |    Byte 2    |    Byte 3    |    |    Byte 0    |   Byte 1     |    Byte 2    |    Byte 3    |"

SeparatorText ==
    "|-----------------------------------------------------------|    |-----------------------------------------------------------|"

\* A text is the finished lines and the line being written.
Text(o, l) == [out |-> o, line |-> l]

\* Characters appended to the line being written (putchar, printf and
\* pr_cont without a newline).
Put(t, toks) == [t EXCEPT !.line = @ \o toks]

\* '\n': the line being written is finished.
Newline(t) == [out |-> Append(t.out, t.line), line |-> <<>>]

\* pr_info starts a new log record: a record left open by pr_cont is
\* finished first.  printf just goes on writing.
StartRecord(u, t) == IF u = "kernel" /\ t.line # <<>> THEN Newline(t) ELSE t

(***************************************************************************)
(* State                                                                   *)
(***************************************************************************)
VARIABLES
    unit,         \* what runs: "user" (src/pci_header.c), "kernel"
                  \* (src/pci_dev.c), "hexstr" (int_2_hexstr alone) or
                  \* "p2sb" (the BAR test of src/p2sb_user.c)
    device,       \* input: index in Devices of the function that is read
    hdr,          \* input: the header type byte of the function
    call,         \* number of the current call of print_pci_header
    pc,           \* position in print_pci_header
    header_type,  \* locals of print_pci_header
    ptr,
    i,
    bitfield,
    bf2,
    value,
    bf_value,
    str_value,
    line,         \* the line being written
    out,          \* the lines the current call has finished
    prev_out,     \* the lines of the previous call
    reads,        \* register offsets the window loop has read in this call
    h_value,      \* int_2_hexstr alone: its arguments and its result
    h_size,
    h_dst,
    bar,          \* isMemory64bit (src/p2sb_user.c): its argument
    is64,         \* and what it returned, "none" before the first call
    r_reg,   \* the register reads of main (src/pci_header.c)
    r_dword,
    r_word,
    r_byte,
    t_op,   \* the extended CMOS driver (src/cmos_dev.c): per context, the ports, the lock
    t_pc,
    t_cmd,
    t_off,
    t_got,
    t_ret,
    cmos_index,
    rw_readers,
    rw_writer,
    nmi_todo,
    p_pc,   \* my_dev_probe / my_dev_remove (src/cmos_dev.c): position, what is registered, result
    region,
    nmi_handler,
    chrdev,
    sysfs,
    p_ret,
    f_pos,   \* my_dev_read on one open file (src/cmos_dev.c): file offset, bytes received so far, last call
    f_recv,
    f_eof,
    f_called,
    f_at,
    f_ret,
    f_err,
    f_got,
    d_pc,   \* p2sb_dev (src/p2sb_user.c): position, hide bit of the P2SB device, descriptor, mapping, result
    hidden,
    unhidden,
    fd_open,
    mapped,
    mlocked,
    d_ret

vars == << unit, device, hdr, call, pc, header_type, ptr, i, bitfield, bf2,
           value, bf_value, str_value, line, out, prev_out, reads,
           h_value, h_size, h_dst, bar, is64,
           r_reg, r_dword, r_word, r_byte,
           t_op, t_pc, t_cmd, t_off, t_got, t_ret, cmos_index, rw_readers, rw_writer, nmi_todo,
           p_pc, region, nmi_handler, chrdev, sysfs, p_ret,
           f_pos, f_recv, f_eof, f_called, f_at, f_ret, f_err, f_got,
           d_pc, hidden, unhidden, fd_open, mapped, mlocked, d_ret >>

inputs == << unit, device, hdr >>
hexstr_vars == << h_value, h_size, h_dst >>
p2sb_vars == << bar, is64 >>
regs_vars == << r_reg, r_dword, r_word, r_byte >>
cmos_vars == << t_op, t_pc, t_cmd, t_off, t_got, t_ret, cmos_index, rw_readers, rw_writer, nmi_todo >>
probe_vars == << p_pc, region, nmi_handler, chrdev, sysfs, p_ret >>
read_vars == << f_pos, f_recv, f_eof, f_called, f_at, f_ret, f_err, f_got >>
dev_vars == << d_pc, hidden, unhidden, fd_open, mapped, mlocked, d_ret >>

\* The configuration space the reads of the current run are served from.
\* The user-space program reads the header type from the device itself; the
\* kernel module takes it from pdev->hdr_type, which the PCI core cached at
\* enumeration, so there the device's registers are independent of it.
Space ==
    IF unit = "user" THEN WithHeaderType(Devices[device].cfg, hdr)
    ELSE Devices[device].cfg

\* Values of arguments that int_2_hexstr is applied to on its own.
HexHalves == {\h0000, \h0001, \h0880, \h10B5, \h8000, \hFFFF}
HexValues == {U32(hi, lo) : hi \in HexHalves, lo \in HexHalves}

\* Values of the BAR register that isMemory64bit is applied to: every
\* setting of the four flag bits 3:0 under a few base addresses.
BarBases == {U32(\h0000, \h0000), U32(\hFD00, \h0000), U32(\hFFFF, \hFFF0)}
BarValues ==
    {[k \in 1..NibblesU32 |-> IF k = 1 THEN flags ELSE base[k]] :
        base \in BarBases, flags \in 0..15}

\* Contents of the caller's buffer before int_2_hexstr: char str_value[16] is
\* not initialised, so anything may be in it.
Garbage == {<<>>, <<"0", "x", "F", "F">>, <<"?", "?", "?", "?", "?", "?", "?">>}

\* The contexts that call into the CMOS driver: two tasks, each on a CPU of
\* its own, and the NMI handler, which runs on the CPU of NmiCpuTask.
Tasks == {"t1", "t2"}
Ctx == Tasks \cup {"nmi"}
NmiCpuTask == "t1"

\* The offsets the sysfs attributes, the tasks and my_nmi_test use.
AttrOffsets == {\h7E, \h7F}
TaskOffsets == {\h7E, \h7F}
NmiOffsets == {\h7F, \h7E, \h7D}

\* The ways into the driver, and the cmd argument of the ioctl.
EntryPoints == {"ioctl", "my_dev_read0", "my_dev_write0", "show", "store"}
IoctlCmds == {"none", "MY_DEV_READ", "MY_DEV_WRITE", "other"}

\* The entry points that read the data port; for the ioctl it depends on cmd.
Reading(c) ==
    {"my_dev_read0", "show"} \cup (IF t_cmd[c] = "MY_DEV_READ" THEN {"ioctl"} ELSE {})

\* What a behaviour runs: print_pci_header in user space or in the kernel
\* module, or one of the other functions on its own; "cmos" is the CMOS
\* driver called by two tasks on two CPUs, "nmi" the driver called by one
\* task whose CPU takes NMIs.
Units == {"user", "kernel", "hexstr", "p2sb", "regs", "cmos", "nmi", "probe", "read",
          "p2sb_dev"}

\* The 256 bytes of configuration space the register argument of main can
\* address: the header of the device, and generated contents above it.
FullSpace(cfg) ==
    [w \in 1..64 |->
        IF w <= 16 THEN cfg[w]
        ELSE U32Bytes(PatternByte(2, 4 * (w - 1)), PatternByte(2, 4 * (w - 1) + 1),
                      PatternByte(2, 4 * (w - 1) + 2), PatternByte(2, 4 * (w - 1) + 3))]

Init ==
    /\ unit \in Units
    /\ device \in (IF unit \in {"user", "kernel", "regs"} THEN 1..Len(Devices) ELSE {1})
    /\ hdr \in (IF unit \in {"user", "kernel"} THEN Bytes ELSE {0})
    /\ call = 1
    /\ pc = IF unit \in {"user", "kernel"} THEN "call" ELSE unit
    /\ header_type = 0
    /\ bitfield = 0
    /\ ptr = "uninit"
    /\ i = 0
    /\ bf2 = 0
    /\ value = U32(0, 0)
    /\ bf_value = U32(0, 0)
    /\ str_value = <<>>
    /\ line = <<>>
    /\ out = <<>>
    /\ prev_out = <<>>
    /\ reads = <<>>
    /\ h_value = U32(0, 0)
    /\ h_size = 1
    /\ h_dst = <<>>
    /\ bar = U32(0, 0)
    /\ is64 = "none"
    /\ r_reg = -1
    /\ r_dword = U32(0, 0)
    /\ r_word = 0
    /\ r_byte = 0
    /\ t_op = [c \in Ctx |-> "none"]
    /\ t_pc = [c \in Ctx |-> "idle"]
    /\ t_cmd = [c \in Ctx |-> "none"]
    /\ t_off = [c \in Ctx |-> 0]
    /\ t_got = [c \in Ctx |-> -1]
    /\ t_ret = [c \in Ctx |-> "none"]
    /\ cmos_index = 0
    /\ rw_readers = {}
    /\ rw_writer = "none"
    /\ nmi_todo = {}
    /\ p_pc = "start"
    /\ region = FALSE
    /\ nmi_handler = FALSE
    /\ chrdev = FALSE
    /\ sysfs = FALSE
    /\ p_ret = "none"
    /\ f_pos = 0
    /\ f_recv = <<>>
    /\ f_eof = FALSE
    /\ f_called = FALSE
    /\ f_at = 0
    /\ f_ret = 0
    /\ f_err = FALSE
    /\ f_got = <<>>
    /\ d_pc = "popen"
    /\ hidden = TRUE
    /\ unhidden = FALSE
    /\ fd_open = FALSE
    /\ mapped = FALSE
    /\ mlocked = FALSE
    /\ d_ret = "none"

(***************************************************************************)
(* print_pci_header: the pieces of one window                              *)
(***************************************************************************)
\* ptr[k]
Entry(k) == TableOf(ptr)[k + 1]

\* The loop condition with <= for <: a window takes the first spec of the
\* next one as well.
InWindowInclusive == Entry(bitfield).offset <= i + 4

\* while (ptr[bitfield].offset < i+4)
InWindow == Entry(bitfield).offset < i + 4

\* The column width without the characters that replace the inner '|'.
SpaceWithoutJoins(size) == 14 * size

\* space_available = 14 * size + (size - 1)
SpaceAvailable(size) == 14 * size + (size - 1)

\* The padding without the division by two: the whole of what the name
\* leaves goes to its left.
LabelPaddingNotHalved(bf) == SpaceAvailable(bf.size) - strlen(bf.name)

\* padding = (space_available - strlen(name)) / 2, as the loops use it:
\* (int) padding.  The subtraction is unsigned; halved, stored in an unsigned
\* int and cast to int it is the floor of half the signed difference.
LabelPadding(bf) == (SpaceAvailable(bf.size) - strlen(bf.name)) \div 2

\* One cell of the label row: padding, the name, padding, '|'.
LabelCellText(bf) ==
    Spaces(0, LabelPadding(bf))
    \o << bf.name >>
    \o Spaces(LabelPadding(bf) + strlen(bf.name), SpaceAvailable(bf.size))
    \o << "|" >>

\* The mask shifted by the offset in the header, the base of the window
\* not taken off.
MaskByHeaderOffset(bf, w) ==
    ShiftLeft(MinusOne(ShiftLeft(OneL, bf.size * 8)), 8 * bf.offset)

\* mask = ((1L<<(size * 8))-1) << (8*(offset - i));
Mask(bf, w) == ShiftLeft(MinusOne(ShiftLeft(OneL, bf.size * 8)), 8 * (bf.offset - w))

\* The masked value taken as it stands, the shift back to bit 0 forgotten.
ExtractWithoutShift(v, bf, w) == Truncate32(AndWord(ZeroExtend(v), Mask(bf, w)))

\* bf_value = (value & mask) >> (8*(offset - i));
ExtractBitfield(v, bf, w) ==
    Truncate32(ShiftRight(AndWord(ZeroExtend(v), Mask(bf, w)), 8 * (bf.offset - w)))

\* padding = (space_available - ( 2 + size)) / 2;
ValuePadding(bf) == (SpaceAvailable(bf.size) - (2 + bf.size)) \div 2

\* One cell of the value row: padding, the hex string, padding, '|'.
ValueCellText(bf, str) ==
    Spaces(0, ValuePadding(bf))
    \o str
    \o Spaces(ValuePadding(bf) + strlen(str), SpaceAvailable(bf.size))
    \o << "|" >>

\* The banner without the separator line under it.
BannerWithoutSeparator(u, t) == Newline(Put(StartRecord(u, t), << BannerText >>))

\* The banner and the first separator, each a line of its own.
BannerLines(u, t) ==
    LET t1 == Newline(Put(StartRecord(u, t), << BannerText >>))
    IN  Newline(Put(StartRecord(u, t1), << SeparatorText, "    Address" >>))

(***************************************************************************)
(* print_pci_header of src/pci_header.c: the header type check             *)
(***************************************************************************)
\* header_type is neither 0 nor 1: two lines of diagnostics, then return.
U_RejectHeaderType ==
    /\ unit = "user" /\ pc = "call"
    /\ LET ht == pci_cfg_reg_read_header_type(Space)
           d  == Devices[device]
           t1 == Newline(Put(Text(out, line),
                             << "Unknown PCI header type: " >> \o Fmt_x(ht)))
           t2 == Newline(Put(t1, << "Selected device " >> \o Fmt_x(d.bus)
                                 \o << ":" >> \o Fmt_x(d.dev)
                                 \o << ":" >> \o Fmt_x(d.func)
                                 \o << " is an unknown type" >>))
       IN  /\ ht # 0 /\ ht # 1
           /\ header_type' = ht
           /\ out' = t2.out
           /\ line' = t2.line
    /\ pc' = "done"
    /\ UNCHANGED << inputs, call, ptr, i, bitfield, bf2, value, bf_value, str_value,
                    prev_out, reads, hexstr_vars, p2sb_vars,
                    regs_vars,
                    cmos_vars,
                    probe_vars,
                    read_vars,
                    dev_vars >>

\* header_type is 0 or 1: ptr = types[header_type], the title, the banner.
U_SelectLayout ==
    /\ unit = "user" /\ pc = "call"
    /\ LET ht == pci_cfg_reg_read_header_type(Space)
           d  == Devices[device]
           t1 == Newline(Put(Text(out, line),
                             << "Selected device " >> \o Fmt_x(d.bus)
                             \o << ":" >> \o Fmt_x(d.dev)
                             \o << ":" >> \o Fmt_x(d.func)
                             \o << " is a", ctypes[ht + 1] >>))
           t2 == BannerLines(unit, t1)
       IN  /\ ~(ht # 0 /\ ht # 1)
           /\ header_type' = ht
           /\ ptr' = types[ht + 1]
           /\ out' = t2.out
           /\ line' = t2.line
    /\ i' = 0
    /\ pc' = "loop"
    /\ UNCHANGED << inputs, call, bitfield, bf2, value, bf_value, str_value,
                    prev_out, reads, hexstr_vars, p2sb_vars,
                    regs_vars,
                    cmos_vars,
                    probe_vars,
                    read_vars,
                    dev_vars >>

(***************************************************************************)
(* print_pci_header of src/pci_dev.c: no check before types[header_type]   *)
(***************************************************************************)
\* pdev->hdr_type is 0 or 1: the lookup is inside types[2].
K_SelectLayout ==
    /\ unit = "kernel" /\ pc = "call"
    /\ hdr \in {0, 1}
    /\ header_type' = hdr
    /\ ptr' = types[hdr + 1]
    /\ LET d  == Devices[device]
           devfn == d.dev * 8 + d.func
           t1 == Newline(Put(StartRecord(unit, Text(out, line)),
                             << "Selected device " >> \o Fmt_x(d.bus)
                             \o << ":" >> \o Fmt_x(BitAnd(devfn, \hF8))
                             \o << ":" >> \o Fmt_x(BitAnd(devfn, \h07))
                             \o << " is a", ctypes[hdr + 1] >>))
           t2 == BannerLines(unit, t1)
       IN  /\ out' = t2.out
           /\ line' = t2.line
    /\ i' = 0
    /\ pc' = "loop"
    /\ UNCHANGED << inputs, call, bitfield, bf2, value, bf_value, str_value,
                    prev_out, reads, hexstr_vars, p2sb_vars,
                    regs_vars,
                    cmos_vars,
                    probe_vars,
                    read_vars,
                    dev_vars >>

\* Any other pdev->hdr_type: types[header_type] and ctypes[header_type] are
\* read past the end of the two-element arrays.  The behaviour is undefined:
\* ptr is whatever lies behind the array, and nothing can be said of what
\* the function does from here on.
K_IndexOutOfRange ==
    /\ unit = "kernel" /\ pc = "call"
    /\ hdr \notin {0, 1}
    /\ header_type' = hdr
    /\ ptr' = "wild"
    /\ pc' = "undefined"
    /\ UNCHANGED << inputs, call, i, bitfield, bf2, value, bf_value, str_value,
                    line, out, prev_out, reads, hexstr_vars, p2sb_vars,
                    regs_vars,
                    cmos_vars,
                    probe_vars,
                    read_vars,
                    dev_vars >>

(***************************************************************************)
(* print_pci_header: the window loop (the same in both files)              *)
(***************************************************************************)
\* for (i=0; i<0x40; i+=4) { bf2 = bitfield; putchar('|');
WindowStart ==
    /\ pc = "loop"
    /\ i < \h40
    /\ bf2' = bitfield
    /\ LET t1 == Put(StartRecord(unit, Text(out, line)), << "|" >>)
       IN  out' = t1.out /\ line' = t1.line
    /\ pc' = "label"
    /\ UNCHANGED << inputs, call, header_type, ptr, i, bitfield, value,
                    bf_value, str_value, prev_out, reads, hexstr_vars, p2sb_vars,
                    regs_vars,
                    cmos_vars,
                    probe_vars,
                    read_vars,
                    dev_vars >>

\* One iteration of the first while loop: the label of ptr[bitfield].
LabelCell ==
    /\ pc = "label"
    /\ InWindow
    /\ LET t1 == Put(Text(out, line), LabelCellText(Entry(bitfield)))
       IN  out' = t1.out /\ line' = t1.line
    /\ bitfield' = bitfield + 1
    /\ UNCHANGED << inputs, call, pc, header_type, ptr, i, bf2, value,
                    bf_value, str_value, prev_out, reads, hexstr_vars, p2sb_vars,
                    regs_vars,
                    cmos_vars,
                    probe_vars,
                    read_vars,
                    dev_vars >>

\* The read of a window without bitfield = bf2: the value loop starts where
\* the label loop stopped.
ReadDwordKeepsCursor ==
    /\ pc = "label"
    /\ ~InWindow
    /\ value' = pci_cfg_reg_read_dword(Space, i)
    /\ reads' = Append(reads, BitAnd(i, \hFC))
    /\ LET t1 == Put(Text(out, line), << "    ", "|" >>)
       IN  out' = t1.out /\ line' = t1.line
    /\ pc' = "value"
    /\ UNCHANGED << inputs, call, header_type, ptr, i, bitfield, bf2, bf_value,
                    str_value, prev_out, hexstr_vars, p2sb_vars,
                    regs_vars,
                    cmos_vars,
                    probe_vars,
                    read_vars,
                    dev_vars >>

\* value = pci_cfg_reg_read_dword(bus, dev, func, i); bitfield = bf2;
\* printf("    |");
ReadDword ==
    /\ pc = "label"
    /\ ~InWindow
    /\ value' = pci_cfg_reg_read_dword(Space, i)
    /\ reads' = Append(reads, BitAnd(i, \hFC))
    /\ bitfield' = bf2
    /\ LET t1 == Put(Text(out, line), << "    ", "|" >>)
       IN  out' = t1.out /\ line' = t1.line
    /\ pc' = "value"
    /\ UNCHANGED << inputs, call, header_type, ptr, i, bf2, bf_value, str_value,
                    prev_out, hexstr_vars, p2sb_vars,
                    regs_vars,
                    cmos_vars,
                    probe_vars,
                    read_vars,
                    dev_vars >>

\* One iteration of the second while loop: the value of ptr[bitfield].
ValueCell ==
    /\ pc = "value"
    /\ InWindow
    /\ Entry(bitfield).size # 5
    /\ LET bf  == Entry(bitfield)
           bfv == ExtractBitfield(value, bf, i)
           str == int_2_hexstr(bfv, bf.size, str_value)
           t1  == Put(Text(out, line), ValueCellText(bf, str))
       IN  /\ bf_value' = bfv
           /\ str_value' = str
           /\ out' = t1.out
           /\ line' = t1.line
    /\ bitfield' = bitfield + 1
    /\ UNCHANGED << inputs, call, pc, header_type, ptr, i, bf2, value,
                    prev_out, reads, hexstr_vars, p2sb_vars,
                    regs_vars,
                    cmos_vars,
                    probe_vars,
                    read_vars,
                    dev_vars >>

\* The end of a window with the loop stepping by 8: every other window is
\* skipped.
EndWindowStepsByEight ==
    /\ pc = "value"
    /\ (~InWindow \/ Entry(bitfield).size = 5)
    /\ LET t1 == Put(Text(out, line), << "    " >> \o Fmt_0x02x(i))
           t2 == IF unit = "user" THEN Newline(t1) ELSE t1
           t3 == Newline(Put(StartRecord(unit, t2), << SeparatorText >>))
       IN  out' = t3.out /\ line' = t3.line
    /\ i' = i + 8
    /\ pc' = "loop"
    /\ UNCHANGED << inputs, call, header_type, ptr, bitfield, bf2, value,
                    bf_value, str_value, prev_out, reads, hexstr_vars, p2sb_vars,
                    regs_vars,
                    cmos_vars,
                    probe_vars,
                    read_vars,
                    dev_vars >>

\* The second while loop is left (its condition fails, or the break on
\* size == 5): the address, the separator line, i += 4.
EndWindow ==
    /\ pc = "value"
    /\ (~InWindow \/ Entry(bitfield).size = 5)
    /\ LET t1 == Put(Text(out, line), << "    " >> \o Fmt_0x02x(i))
           t2 == IF unit = "user" THEN Newline(t1) ELSE t1
           t3 == Newline(Put(StartRecord(unit, t2), << SeparatorText >>))
       IN  out' = t3.out /\ line' = t3.line
    /\ i' = i + 4
    /\ pc' = "loop"
    /\ UNCHANGED << inputs, call, header_type, ptr, bitfield, bf2, value,
                    bf_value, str_value, prev_out, reads, hexstr_vars, p2sb_vars,
                    regs_vars,
                    cmos_vars,
                    probe_vars,
                    read_vars,
                    dev_vars >>

\* i < 0x40 fails: the function returns.
Return ==
    /\ pc = "loop"
    /\ ~(i < \h40)
    /\ pc' = "done"
    /\ UNCHANGED << inputs, call, header_type, ptr, i, bitfield, bf2, value,
                    bf_value, str_value, line, out, prev_out, reads, hexstr_vars, p2sb_vars,
                    regs_vars,
                    cmos_vars,
                    probe_vars,
                    read_vars,
                    dev_vars >>

\* The function is called again for the same device.  header_type and
\* bitfield are initialised by their declarations; the other locals are not
\* and hold what the previous call left on the stack.
NextCall ==
    /\ pc = "done"
    /\ call < MaxCalls
    /\ call' = call + 1
    /\ header_type' = 0
    /\ bitfield' = 0
    /\ prev_out' = out
    /\ out' = <<>>
    /\ line' = <<>>
    /\ reads' = <<>>
    /\ pc' = "call"
    /\ UNCHANGED << inputs, ptr, i, bf2, value, bf_value, str_value, hexstr_vars, p2sb_vars,
                    regs_vars,
                    cmos_vars,
                    probe_vars,
                    read_vars,
                    dev_vars >>

(***************************************************************************)
(* int_2_hexstr called on its own, with any value and any buffer           *)
(***************************************************************************)
Call_int_2_hexstr ==
    /\ unit = "hexstr"
    /\ \E v \in HexValues, s \in 1..4, g \in Garbage :
          /\ h_value' = v
          /\ h_size' = s
          /\ h_dst' = int_2_hexstr(v, s, g)
    /\ UNCHANGED << inputs, call, pc, header_type, ptr, i, bitfield, bf2,
                    value, bf_value, str_value, line, out, prev_out, reads,
                    p2sb_vars,
                    regs_vars,
                    cmos_vars,
                    probe_vars,
                    read_vars,
                    dev_vars >>

(***************************************************************************)
(* isMemory64bit called on the BAR p2sb_config_registers has read          *)
(***************************************************************************)
Call_isMemory64bit ==
    /\ unit = "p2sb"
    /\ \E b \in BarValues :
          /\ bar' = b
          /\ is64' = isMemory64bit(b)
    /\ UNCHANGED << inputs, call, pc, header_type, ptr, i, bitfield, bf2,
                    value, bf_value, str_value, line, out, prev_out, reads,
                    hexstr_vars,
                    regs_vars,
                    cmos_vars,
                    probe_vars,
                    read_vars,
                    dev_vars >>

\* The tuple of the variables of print_pci_header.
render_vars == << call, pc, header_type, ptr, i, bitfield, bf2, value, bf_value,
                 str_value, line, out, prev_out, reads >>

(***************************************************************************)
(* main, argc == 5: the register argv[4] read as dword, word and byte      *)
(***************************************************************************)
\* main makes the three reads once; r_reg is -1 until it has.
Call_reg_reads ==
    /\ unit = "regs"
    /\ r_reg = -1
    /\ \E reg \in Bytes :
          /\ r_reg' = reg
          /\ r_dword' = pci_cfg_reg_read_dword(FullSpace(Devices[device].cfg), reg)
          /\ r_word' = pci_cfg_reg_read_word(FullSpace(Devices[device].cfg), reg)
          /\ r_byte' = pci_cfg_reg_read_byte(FullSpace(Devices[device].cfg), reg)
    /\ UNCHANGED << inputs, render_vars, hexstr_vars, p2sb_vars,
                    cmos_vars,
                    probe_vars,
                    read_vars,
                    dev_vars >>

(***************************************************************************)
(* src/cmos_dev.c: the accesses to the extended CMOS ports 0x72 / 0x73     *)
(* A context is a task in a driver entry point, or the NMI handler.  Each  *)
(* port access and each lock operation is one step.  t_got is the cell the *)
(* data port access of a context reached: the one the index port selected  *)
(* when the access was made.                                               *)
(***************************************************************************)
\* The step a context takes after read_unlock.
AfterReadUnlock(c) == IF t_op[c] = "ioctl" THEN "copy_out" ELSE "returned"

\* The contexts that exist in the unit that runs.
Exists(c) ==
    \/ unit = "cmos" /\ c \in Tasks
    \/ unit = "nmi" /\ c \in {NmiCpuTask, "nmi"}

\* A context can take a step: an NMI handler that has not returned keeps
\* the code it interrupted from running.
Runs(c) == Exists(c) /\ ~(c = NmiCpuTask /\ t_pc["nmi"] # "idle")

cmos_others == << inputs, render_vars, hexstr_vars, p2sb_vars, regs_vars >>

\* A task enters the driver: ioctl(fd, cmd, &mydev_data), my_dev_read0,
\* my_dev_write0, or a read or write of one of the two sysfs attributes.
EnterDriver(c) ==
    /\ c \in Tasks /\ Runs(c)
    /\ t_pc[c] \in {"idle", "returned"}
    /\ \E op \in EntryPoints, cmd \in IoctlCmds, off \in TaskOffsets :
          /\ op = "ioctl" \/ cmd = "none"
          /\ op # "ioctl" \/ cmd # "none"
          /\ op = "show" => off \in AttrOffsets
          /\ op = "store" => off \in AttrOffsets
          /\ t_op' = [t_op EXCEPT ![c] = op]
          /\ t_cmd' = [t_cmd EXCEPT ![c] = cmd]
          /\ t_off' = [t_off EXCEPT ![c] = off]
          /\ t_pc' = [t_pc EXCEPT ![c] =
                CASE op = "ioctl" -> "copy_in"
                  [] op = "my_dev_read0" -> "rlock"
                  [] op = "my_dev_write0" -> "wlock"
                  [] op = "show" -> "index"
                  [] op = "store" -> "kstrtol"]
    /\ t_got' = [t_got EXCEPT ![c] = -1]
    /\ t_ret' = [t_ret EXCEPT ![c] = "none"]
    /\ UNCHANGED << cmos_others, cmos_index, rw_readers, rw_writer, nmi_todo,
                    probe_vars,
                    read_vars,
                    dev_vars >>

\* my_dev_ioctl: copy_from_user, then the switch on cmd.
IoctlCopyIn(c) ==
    /\ Runs(c) /\ t_pc[c] = "copy_in"
    /\ \E fault \in BOOLEAN :
          IF fault \/ t_cmd[c] = "other"
          THEN /\ t_pc' = [t_pc EXCEPT ![c] = "returned"]
               /\ t_ret' = [t_ret EXCEPT ![c] = "-EFAULT"]
          ELSE /\ t_pc' = [t_pc EXCEPT ![c] =
                     IF t_cmd[c] = "MY_DEV_READ" THEN "rlock" ELSE "wlock"]
               /\ t_ret' = t_ret
    /\ UNCHANGED << cmos_others, t_op, t_cmd, t_off, t_got, cmos_index,
                    rw_readers, rw_writer, nmi_todo,
                    probe_vars,
                    read_vars,
                    dev_vars >>

\* read_lock(&my_dev_lock): waits while a writer holds the lock.
ReadLock(c) ==
    /\ Runs(c) /\ t_pc[c] = "rlock"
    /\ rw_writer = "none"
    /\ rw_readers' = rw_readers \cup {c}
    /\ t_pc' = [t_pc EXCEPT ![c] = "index"]
    /\ UNCHANGED << cmos_others, t_op, t_cmd, t_off, t_got, t_ret, cmos_index,
                    rw_writer, nmi_todo,
                    probe_vars,
                    read_vars,
                    dev_vars >>

\* write_lock(&my_dev_lock): waits while anyone holds the lock.
WriteLock(c) ==
    /\ Runs(c) /\ t_pc[c] = "wlock"
    /\ rw_writer = "none" /\ rw_readers = {}
    /\ rw_writer' = c
    /\ t_pc' = [t_pc EXCEPT ![c] = "index"]
    /\ UNCHANGED << cmos_others, t_op, t_cmd, t_off, t_got, t_ret, cmos_index,
                    rw_readers, nmi_todo,
                    probe_vars,
                    read_vars,
                    dev_vars >>

\* outb(addr, IO_RTC_BANK1_INDEX_PORT)
OutbIndex(c) ==
    /\ Runs(c) /\ t_pc[c] = "index"
    /\ cmos_index' = t_off[c]
    /\ t_pc' = [t_pc EXCEPT ![c] = IF t_op[c] \in Reading(c) THEN "inb" ELSE "outb"]
    /\ UNCHANGED << cmos_others, t_op, t_cmd, t_off, t_got, t_ret, rw_readers,
                    rw_writer, nmi_todo,
                    probe_vars,
                    read_vars,
                    dev_vars >>

\* return inb(IO_RTC_BANK1_INDEX_PORT + 1)
InbData(c) ==
    /\ Runs(c) /\ t_pc[c] = "inb"
    /\ t_got' = [t_got EXCEPT ![c] = cmos_index]
    /\ IF t_op[c] = "show"
       THEN /\ t_pc' = [t_pc EXCEPT ![c] = "returned"]
            /\ t_ret' = [t_ret EXCEPT ![c] = "length"]
       ELSE /\ t_pc' = [t_pc EXCEPT ![c] = "runlock"]
            /\ t_ret' = t_ret
    /\ UNCHANGED << cmos_others, t_op, t_cmd, t_off, cmos_index, rw_readers,
                    rw_writer, nmi_todo,
                    probe_vars,
                    read_vars,
                    dev_vars >>

\* outb(val, IO_RTC_BANK1_INDEX_PORT + 1)
OutbData(c) ==
    /\ Runs(c) /\ t_pc[c] = "outb"
    /\ t_got' = [t_got EXCEPT ![c] = cmos_index]
    /\ IF t_op[c] = "store"
       THEN /\ t_pc' = [t_pc EXCEPT ![c] = "returned"]
            /\ t_ret' = [t_ret EXCEPT ![c] = "count"]
       ELSE /\ t_pc' = [t_pc EXCEPT ![c] = "wunlock"]
            /\ t_ret' = t_ret
    /\ UNCHANGED << cmos_others, t_op, t_cmd, t_off, cmos_index, rw_readers,
                    rw_writer, nmi_todo,
                    probe_vars,
                    read_vars,
                    dev_vars >>

\* The step after inb with the read_unlock left out.
ReadUnlockLeftOut(c) ==
    /\ Runs(c) /\ t_pc[c] = "runlock"
    /\ t_pc' = [t_pc EXCEPT ![c] = AfterReadUnlock(c)]
    /\ t_ret' = [t_ret EXCEPT ![c] = IF t_op[c] = "ioctl" THEN @ ELSE "data"]
    /\ UNCHANGED << cmos_others, t_op, t_cmd, t_off, t_got, cmos_index,
                    rw_readers, rw_writer, nmi_todo,
                    probe_vars,
                    read_vars,
                    dev_vars >>

\* read_unlock(&my_dev_lock); my_dev_read0 then returns the byte.
ReadUnlock(c) ==
    /\ Runs(c) /\ t_pc[c] = "runlock"
    /\ rw_readers' = rw_readers \ {c}
    /\ t_pc' = [t_pc EXCEPT ![c] = AfterReadUnlock(c)]
    /\ t_ret' = [t_ret EXCEPT ![c] = IF t_op[c] = "ioctl" THEN @ ELSE "data"]
    /\ UNCHANGED << cmos_others, t_op, t_cmd, t_off, t_got, cmos_index,
                    rw_writer, nmi_todo,
                    probe_vars,
                    read_vars,
                    dev_vars >>

\* write_unlock(&my_dev_lock); the ioctl then returns 0, my_dev_write0
\* returns nothing.
WriteUnlock(c) ==
    /\ Runs(c) /\ t_pc[c] = "wunlock"
    /\ rw_writer' = IF rw_writer = c THEN "none" ELSE rw_writer
    /\ t_pc' = [t_pc EXCEPT ![c] = "returned"]
    /\ t_ret' = [t_ret EXCEPT ![c] = IF t_op[c] = "ioctl" THEN "0" ELSE "void"]
    /\ UNCHANGED << cmos_others, t_op, t_cmd, t_off, t_got, cmos_index,
                    rw_readers, nmi_todo,
                    probe_vars,
                    read_vars,
                    dev_vars >>

\* my_dev_ioctl, MY_DEV_READ: copy_to_user, return 0 or -EFAULT.
IoctlCopyOut(c) ==
    /\ Runs(c) /\ t_pc[c] = "copy_out"
    /\ \E fault \in BOOLEAN :
          t_ret' = [t_ret EXCEPT ![c] = IF fault THEN "-EFAULT" ELSE "0"]
    /\ t_pc' = [t_pc EXCEPT ![c] = "returned"]
    /\ UNCHANGED << cmos_others, t_op, t_cmd, t_off, t_got, cmos_index,
                    rw_readers, rw_writer, nmi_todo,
                    probe_vars,
                    read_vars,
                    dev_vars >>

\* my_attr_7f_store / my_attr_7e_store: kstrtol, return count if it fails.
StoreParse(c) ==
    /\ Runs(c) /\ t_pc[c] = "kstrtol"
    /\ \E einval \in BOOLEAN :
          IF einval
          THEN /\ t_pc' = [t_pc EXCEPT ![c] = "returned"]
               /\ t_ret' = [t_ret EXCEPT ![c] = "count"]
          ELSE /\ t_pc' = [t_pc EXCEPT ![c] = "index"]
               /\ t_ret' = t_ret
    /\ UNCHANGED << cmos_others, t_op, t_cmd, t_off, t_got, cmos_index,
                    rw_readers, rw_writer, nmi_todo,
                    probe_vars,
                    read_vars,
                    dev_vars >>

\* An NMI is delivered to the CPU of NmiCpuTask, whatever that task is
\* doing: my_nmi_test starts the first of its three my_dev_read0 calls (the
\* order in which the arguments of pr_info are evaluated is not specified).
NmiArrives ==
    /\ unit = "nmi" /\ t_pc["nmi"] = "idle"
    /\ \E off \in NmiOffsets :
          /\ t_off' = [t_off EXCEPT !["nmi"] = off]
          /\ nmi_todo' = NmiOffsets \ {off}
    /\ t_op' = [t_op EXCEPT !["nmi"] = "my_dev_read0"]
    /\ t_pc' = [t_pc EXCEPT !["nmi"] = "rlock"]
    /\ t_got' = [t_got EXCEPT !["nmi"] = -1]
    /\ t_ret' = [t_ret EXCEPT !["nmi"] = "none"]
    /\ UNCHANGED << cmos_others, t_cmd, cmos_index, rw_readers, rw_writer,
                    probe_vars,
                    read_vars,
                    dev_vars >>

\* my_nmi_test: the next my_dev_read0 call.
NmiNextRead ==
    /\ unit = "nmi" /\ t_pc["nmi"] = "returned" /\ nmi_todo # {}
    /\ \E off \in nmi_todo :
          /\ t_off' = [t_off EXCEPT !["nmi"] = off]
          /\ nmi_todo' = nmi_todo \ {off}
    /\ t_pc' = [t_pc EXCEPT !["nmi"] = "rlock"]
    /\ UNCHANGED << cmos_others, t_op, t_cmd, t_got, t_ret, cmos_index,
                    rw_readers, rw_writer,
                    probe_vars,
                    read_vars,
                    dev_vars >>

\* my_nmi_test: pr_info, return NMI_DONE; the interrupted code goes on.
NmiReturn ==
    /\ unit = "nmi" /\ t_pc["nmi"] = "returned" /\ nmi_todo = {}
    /\ t_pc' = [t_pc EXCEPT !["nmi"] = "idle"]
    /\ t_ret' = [t_ret EXCEPT !["nmi"] = "NMI_DONE"]
    /\ UNCHANGED << cmos_others, t_op, t_cmd, t_off, t_got, cmos_index,
                    rw_readers, rw_writer, nmi_todo,
                    probe_vars,
                    read_vars,
                    dev_vars >>

\* A step of context c in the driver.
DriverStep(c) ==
    \/ EnterDriver(c)
    \/ IoctlCopyIn(c)
    \/ ReadLock(c)
    \/ WriteLock(c)
    \/ OutbIndex(c)
    \/ InbData(c)
    \/ OutbData(c)
    \/ ReadUnlock(c)
    \/ WriteUnlock(c)
    \/ IoctlCopyOut(c)
    \/ StoreParse(c)

\* A step of my_nmi_test outside my_dev_read0.
NmiStep == NmiArrives \/ NmiNextRead \/ NmiReturn

(***************************************************************************)
(* src/cmos_dev.c: my_dev_probe and my_dev_remove                          *)
(***************************************************************************)
probe_others == << inputs, render_vars, hexstr_vars, p2sb_vars, regs_vars, cmos_vars >>

\* devm_request_region: fails when the ports belong to someone else.
ProbeRequestRegion ==
    /\ unit = "probe" /\ p_pc = "start"
    /\ \E busy \in BOOLEAN :
          IF busy
          THEN /\ p_ret' = "-EBUSY" /\ p_pc' = "returned" /\ region' = region
          ELSE /\ region' = TRUE /\ p_pc' = "register_nmi" /\ p_ret' = p_ret
    /\ UNCHANGED << probe_others, nmi_handler, chrdev, sysfs,
                    read_vars,
                    dev_vars >>

\* register_nmi_handler(NMI_LOCAL, my_nmi_test, 0, "my_nmi_test")
ProbeRegisterNmi ==
    /\ unit = "probe" /\ p_pc = "register_nmi"
    /\ nmi_handler' = TRUE
    /\ p_pc' = "register_chrdev"
    /\ UNCHANGED << probe_others, region, chrdev, sysfs, p_ret,
                    read_vars,
                    dev_vars >>

\* register_chrdev; on failure devm_release_region and return retval.
ProbeRegisterChrdev ==
    /\ unit = "probe" /\ p_pc = "register_chrdev"
    /\ \E failed \in BOOLEAN :
          IF failed
          THEN /\ region' = FALSE
               /\ p_ret' = "retval" /\ p_pc' = "returned" /\ chrdev' = chrdev
          ELSE /\ chrdev' = TRUE /\ p_pc' = "create" /\ region' = region /\ p_ret' = p_ret
    /\ UNCHANGED << probe_others, nmi_handler, sysfs,
                    read_vars,
                    dev_vars >>

\* class_create, device_create, sysfs_create_group; return 0.
ProbeCreateDevice ==
    /\ unit = "probe" /\ p_pc = "create"
    /\ sysfs' = TRUE
    /\ p_ret' = "0" /\ p_pc' = "returned"
    /\ UNCHANGED << probe_others, region, nmi_handler, chrdev,
                    read_vars,
                    dev_vars >>

\* my_dev_remove, called for a device whose probe returned 0.
Remove ==
    /\ unit = "probe" /\ p_pc = "returned" /\ p_ret = "0"
    /\ sysfs' = FALSE /\ chrdev' = FALSE /\ nmi_handler' = FALSE /\ region' = FALSE
    /\ p_pc' = "removed"
    /\ UNCHANGED << probe_others, p_ret,
                    read_vars,
                    dev_vars >>

(***************************************************************************)
(* src/cmos_dev.c: my_dev_read                                             *)
(***************************************************************************)
\* uint8_t *data = "My device read\n";
data == << "M", "y", " ", "d", "e", "v", "i", "c", "e", " ", "r", "e", "a", "d", "\n" >>

\* size_t datalen = strlen(data);
datalen == Len(data)

\* The count arguments of read(2) that are tried: one byte, a few bytes, the
\* whole message, more than the message.
ReadCounts == {1, 4, Len(data), Len(data) + 5}

\* What copy_to_user(buf, data, count) puts into buf.
CopiedToUser(count) == SubSeq(data, 1, count)

\* One read(2) on the open file; copy_to_user may fault.
my_dev_read ==
    /\ unit = "read"
    /\ \E count0 \in ReadCounts, fault \in BOOLEAN :
          LET count == IF count0 > datalen THEN datalen ELSE count0 IN
          /\ f_called' = TRUE
          /\ f_at' = f_pos
          /\ IF f_pos >= datalen
             THEN /\ f_ret' = 0 /\ f_err' = FALSE /\ f_got' = << >>
                  /\ f_eof' = TRUE
                  /\ UNCHANGED << f_pos, f_recv >>
             ELSE IF fault
                  THEN /\ f_ret' = 0 /\ f_err' = TRUE /\ f_got' = << >>
                       /\ UNCHANGED << f_pos, f_recv, f_eof >>
                  ELSE /\ f_got' = CopiedToUser(count)
                       /\ f_ret' = count /\ f_err' = FALSE
                       /\ f_pos' = f_pos + count
                       /\ f_recv' = IF f_eof THEN f_recv ELSE f_recv \o CopiedToUser(count)
                       /\ f_eof' = f_eof
    /\ UNCHANGED << inputs, render_vars, hexstr_vars, p2sb_vars, regs_vars, cmos_vars,
                    probe_vars,
                    dev_vars >>

(***************************************************************************)
(* src/p2sb_user.c: p2sb_dev                                               *)
(***************************************************************************)
dev_others == << inputs, render_vars, hexstr_vars, p2sb_vars, regs_vars, cmos_vars,
                 probe_vars, read_vars >>

\* return -1 from position pc, with the descriptor and the mapping as given.
DevReturnError(fd, map) ==
    /\ d_ret' = "-1" /\ d_pc' = "returned"
    /\ fd_open' = fd /\ mapped' = map

\* popen of the lspci command and reading the B:D:F lines.
DevPopen ==
    /\ unit = "p2sb_dev" /\ d_pc = "popen"
    /\ \E failed \in BOOLEAN :
          IF failed
          THEN DevReturnError(fd_open, mapped)
          ELSE /\ d_pc' = "unhide" /\ UNCHANGED << d_ret, fd_open, mapped >>
    /\ UNCHANGED << dev_others, hidden, unhidden, mlocked >>

\* system("setpci -s <bdf> 0xE1.B=00:01")
DevUnhide ==
    /\ unit = "p2sb_dev" /\ d_pc = "unhide"
    /\ hidden' = FALSE /\ unhidden' = TRUE
    /\ d_pc' = "open"
    /\ UNCHANGED << dev_others, fd_open, mapped, mlocked, d_ret >>

\* open(resource0, O_RDWR|O_SYNC)
DevOpen ==
    /\ unit = "p2sb_dev" /\ d_pc = "open"
    /\ \E failed \in BOOLEAN :
          IF failed
          THEN DevReturnError(fd_open, mapped)
          ELSE /\ fd_open' = TRUE /\ d_pc' = "fstat" /\ UNCHANGED << d_ret, mapped >>
    /\ UNCHANGED << dev_others, hidden, unhidden, mlocked >>

\* fstat(fd, &filestat)
DevFstat ==
    /\ unit = "p2sb_dev" /\ d_pc = "fstat"
    /\ \E failed \in BOOLEAN :
          IF failed
          THEN DevReturnError(fd_open, mapped)
          ELSE /\ d_pc' = "mmap" /\ UNCHANGED << d_ret, fd_open, mapped >>
    /\ UNCHANGED << dev_others, hidden, unhidden, mlocked >>

\* mmap of GPIO community 1; on failure close(fd).
DevMmap ==
    /\ unit = "p2sb_dev" /\ d_pc = "mmap"
    /\ \E failed \in BOOLEAN :
          IF failed
          THEN DevReturnError(FALSE, mapped)
          ELSE /\ mapped' = TRUE /\ d_pc' = "mlock" /\ UNCHANGED << d_ret, fd_open >>
    /\ UNCHANGED << dev_others, hidden, unhidden, mlocked >>

\* mlock; on failure munmap and close(fd).
DevMlock ==
    /\ unit = "p2sb_dev" /\ d_pc = "mlock"
    /\ \E failed \in BOOLEAN :
          IF failed
          THEN DevReturnError(FALSE, FALSE) /\ mlocked' = mlocked
          ELSE /\ mlocked' = TRUE /\ d_pc' = "gpio" /\ UNCHANGED << d_ret, fd_open, mapped >>
    /\ UNCHANGED << dev_others, hidden, unhidden >>

\* setpci 0x04.B=02:02, parse of the B:D:F, the four GPIO register reads.
DevGpioRegisters ==
    /\ unit = "p2sb_dev" /\ d_pc = "gpio"
    /\ d_pc' = "munlock"
    /\ UNCHANGED << dev_others, hidden, unhidden, fd_open, mapped, mlocked, d_ret >>

\* munlock; on failure munmap and close(fd).
DevMunlock ==
    /\ unit = "p2sb_dev" /\ d_pc = "munlock"
    /\ \E failed \in BOOLEAN :
          IF failed
          THEN DevReturnError(FALSE, FALSE) /\ mlocked' = FALSE
          ELSE /\ mlocked' = FALSE /\ d_pc' = "hide" /\ UNCHANGED << d_ret, fd_open, mapped >>
    /\ UNCHANGED << dev_others, hidden, unhidden >>

\* p2sb_config_registers, system("setpci -s <bdf> 0xE1.B=01:01"),
\* p2sb_config_registers.
DevHide ==
    /\ unit = "p2sb_dev" /\ d_pc = "hide"
    /\ hidden' = TRUE
    /\ d_pc' = "munmap"
    /\ UNCHANGED << dev_others, unhidden, fd_open, mapped, mlocked, d_ret >>

\* munmap; close(fd) whether it fails or not; a failed munmap leaves the
\* mapping in place.
DevMunmap ==
    /\ unit = "p2sb_dev" /\ d_pc = "munmap"
    /\ \E failed \in BOOLEAN :
          IF failed
          THEN DevReturnError(FALSE, mapped)
          ELSE /\ mapped' = FALSE /\ fd_open' = FALSE
               /\ d_ret' = "0" /\ d_pc' = "returned"
    /\ UNCHANGED << dev_others, hidden, unhidden, mlocked >>

p2sb_dev ==
    \/ DevPopen \/ DevUnhide \/ DevOpen \/ DevFstat \/ DevMmap \/ DevMlock
    \/ DevGpioRegisters \/ DevMunlock \/ DevHide \/ DevMunmap

Next ==
    \/ U_RejectHeaderType
    \/ U_SelectLayout
    \/ K_SelectLayout
    \/ K_IndexOutOfRange
    \/ WindowStart
    \/ LabelCell
    \/ ReadDword
    \/ ValueCell
    \/ EndWindow
    \/ Return
    \/ NextCall
    \/ Call_int_2_hexstr
    \/ Call_isMemory64bit
    \/ Call_reg_reads
    \/ \E c \in Ctx : DriverStep(c)
    \/ NmiStep
    \/ ProbeRequestRegion
    \/ ProbeRegisterNmi
    \/ ProbeRegisterChrdev
    \/ ProbeCreateDevice
    \/ Remove
    \/ my_dev_read
    \/ p2sb_dev

Spec == Init /\ [][Next]_vars

\* An NMI handler is not preempted and not put to sleep: while it can take
\* a step it takes one.
FairSpec == Spec /\ WF_vars(NmiStep \/ DriverStep("nmi"))

(***************************************************************************)
(* Reading the rendered table back                                         *)
(***************************************************************************)
\* The tokens only table lines are made of.
TableTokens == {"|", BannerText, SeparatorText}

\* No line of the text holds a piece of the table.
NoTableLine(lines) ==
    \A k \in 1..Len(lines) : \A j \in 1..Len(lines[k]) : lines[k][j] \notin TableTokens

\* The non-sentinel specs of a layout.
Fields(layout) == {k \in 1..Len(layout) : layout[k].size # 5}

\* The bytes of configuration space a spec spans.
Span(bf) == bf.offset .. (bf.offset + bf.size - 1)

(***************************************************************************)
(* C1.  In the user-space renderer, a header type byte other than 0 and 1  *)
(* makes the call return without selecting a layout, without reading any   *)
(* of the 16 windows and without writing any line of the table (banner,    *)
(* label/value row or separator): there is no partial output.              *)
(***************************************************************************)
C1_UnsupportedHeaderRendersNothing ==
    (unit = "user" /\ hdr \notin {0, 1}) =>
        /\ pc \in {"call", "done"}
        /\ ptr = "uninit"
        /\ reads = <<>>
        /\ NoTableLine(out) /\ NoTableLine(<<line>>) /\ NoTableLine(prev_out)

\* A call for a CardBus header (type 2) has returned after its two lines of
\* diagnostics.
C1_Witness ==
    /\ unit = "user" /\ hdr = 2 /\ pc = "done"
    /\ Len(out) = 2
    /\ out[1][1] = "Unknown PCI header type: "

(***************************************************************************)
(* C2.  In the kernel renderer, types[] is indexed only with a header type *)
(* in {0,1}: for every other pdev->hdr_type the function rejects the       *)
(* header before the lookup and renders nothing.                           *)
(* The code has no such check; this is the claim as stated.                *)
(***************************************************************************)
C2_KernelRejectsBeforeLookup ==
    (unit = "kernel" /\ hdr \notin {0, 1}) =>
        /\ ptr = "uninit"
        /\ pc \in {"call", "done"}

(***************************************************************************)
(* C3.  In both layouts the byte spans [offset, offset+size) of the        *)
(* non-sentinel specs are pairwise disjoint and their union is exactly     *)
(* [0, 0x40): every byte 0x00..0x3F belongs to exactly one spec.           *)
(* Checked of the layout a call has selected.  The tables put Class Code   *)
(* at 0xA (bytes 0xA..0xC), so this is the claim as stated.                *)
(***************************************************************************)
\* The spans of a layout partition the 64 bytes of the header.
SpansPartition(layout) ==
    /\ \A b \in 0..63 :
          Cardinality({k \in Fields(layout) : b \in Span(layout[k])}) = 1
    /\ \A k \in Fields(layout) : Span(layout[k]) \subseteq 0..63

C3_SpansPartitionHeader ==
    \A p \in {"type_0_header", "type_1_header"} :
        ptr = p => SpansPartition(TableOf(p))

(***************************************************************************)
(* C4.  For every supported header type, every window w and every raw      *)
(* dword d returned for w, each spec of the window with offset o and width *)
(* n is decoded to (d >> 8*(o-w)) mod 2^(8*n): little-endian byte order    *)
(* within the dword.  In particular 0x100910B5 at 0x00 decodes to Vendor   *)
(* ID 0x10B5 and Device ID 0x1009, and in the Type-1 layout 0x00261817 at  *)
(* 0x18 decodes to Primary Bus 0x17, Secondary Bus 0x18, Sub. Bus 0x26 and *)
(* Sec Lat timer 0x00.                                                     *)
(***************************************************************************)
\* (d >> 8*k) mod 2^(8*n) for a dword d: nibble j of the result is nibble
\* j + 2k of d, for the 2n low nibbles that d has.
DecodedLE(d, k, n) ==
    [j \in 1..8 |-> IF j <= 2 * n /\ j + 2 * k <= 8 THEN d[j + 2 * k] ELSE 0]

\* The spec the value loop has decoded last in the current window.
LastDecoded == Entry(bitfield - 1)

\* The value loop has decoded the c-th spec of window w from the dword d.
Decoded(w, d, c) == pc = "value" /\ i = w /\ value = d /\ bitfield = bf2 + c

C4_LittleEndianDecode ==
    /\ (pc = "value" /\ bitfield > bf2) =>
          /\ value = Space[i \div 4 + 1]
          /\ bf_value = DecodedLE(value, LastDecoded.offset - i, LastDecoded.size)
    /\ Decoded(\h00, U32(\h1009, \h10B5), 1) =>
          LastDecoded.name = "Vendor ID" /\ bf_value = U32(0, \h10B5)
    /\ Decoded(\h00, U32(\h1009, \h10B5), 2) =>
          LastDecoded.name = "Device ID" /\ bf_value = U32(0, \h1009)
    /\ (ptr = "type_1_header" /\ Decoded(\h18, U32(\h0026, \h1817), 1)) =>
          LastDecoded.name = "Primary Bus" /\ bf_value = U32(0, \h17)
    /\ (ptr = "type_1_header" /\ Decoded(\h18, U32(\h0026, \h1817), 2)) =>
          LastDecoded.name = "Secondary Bus" /\ bf_value = U32(0, \h18)
    /\ (ptr = "type_1_header" /\ Decoded(\h18, U32(\h0026, \h1817), 3)) =>
          LastDecoded.name = "Sub. Bus" /\ bf_value = U32(0, \h26)
    /\ (ptr = "type_1_header" /\ Decoded(\h18, U32(\h0026, \h1817), 4)) =>
          LastDecoded.name = "Sec Lat timer" /\ bf_value = U32(0, \h00)

\* The bridge's bus numbers: the third byte of 0x00261817 has been decoded.
C4_Witness ==
    /\ ptr = "type_1_header"
    /\ Decoded(\h18, U32(\h0026, \h1817), 3)
    /\ bf_value = U32(0, \h26)

(***************************************************************************)
(* C5.  For a supported header type and any 16 raw dwords (all ones        *)
(* included) every field is rendered, and the hex digits rendered for a    *)
(* field of width n at offset o are verbatim the n configuration-space     *)
(* bytes o .. o+n-1, most significant byte first; with all-ones input      *)
(* every field of width n renders as "0x" followed by 2n 'F' digits.       *)
(* Class Code (offset 0xA in the tables, see C3) is rendered from bytes    *)
(* 0xA and 0xB only, so this is the claim as stated.                       *)
(***************************************************************************)
UpperHex == <<"0", "1", "2", "3", "4", "5", "6", "7",
              "8", "9", "A", "B", "C", "D", "E", "F">>

\* The two hex digits of the byte at address a of the configuration space.
ByteDigits(a) ==
    LET d == Space[a \div 4 + 1]
    IN  << UpperHex[d[2 * (a % 4) + 2] + 1], UpperHex[d[2 * (a % 4) + 1] + 1] >>

RECURSIVE BytesDigits(_, _)
\* The digits of the n bytes o .. o+n-1, the byte at o+n-1 first.
BytesDigits(o, n) ==
    IF n = 0 THEN <<>> ELSE ByteDigits(o + n - 1) \o BytesDigits(o, n - 1)

C5_RenderedVerbatim ==
    (pc = "value" /\ bitfield > bf2) =>
        /\ str_value = <<"0", "x">> \o BytesDigits(LastDecoded.offset, LastDecoded.size)
        /\ (\A w \in 1..16 : Space[w] = U32(\hFFFF, \hFFFF)) =>
              str_value = <<"0", "x">> \o [k \in 1..(2 * LastDecoded.size) |-> "F"]

(***************************************************************************)
(* C6.  int_2_hexstr(value, size, dst) yields, for every size in 1..4 and  *)
(* every 32-bit value, "0x" followed by exactly 2*size uppercase hex       *)
(* digits: the zero-padded representation of value mod 16^(2*size).  Size  *)
(* 3 and value 0x000880 give "0x000880".                                   *)
(***************************************************************************)
\* "0x" and the 2*size low nibbles of v, the most significant first.
HexText(v, size) ==
    <<"0", "x">> \o [k \in 1..(2 * size) |-> UpperHex[v[2 * size - k + 1] + 1]]

C6_HexstrFixedWidth ==
    (unit = "hexstr" /\ h_dst # <<>>) =>
        /\ h_dst = HexText(h_value, h_size)
        /\ Len(h_dst) = 2 + 2 * h_size
        /\ (h_size = 3 /\ h_value = U32(\h0000, \h0880)) =>
              h_dst = <<"0", "x", "0", "0", "0", "8", "8", "0">>

\* The documented class code has been formatted with size 3.
C6_Witness ==
    /\ unit = "hexstr"
    /\ h_size = 3
    /\ h_value = U32(\h0000, \h0880)
    /\ h_dst = <<"0", "x", "0", "0", "0", "8", "8", "0">>

(***************************************************************************)
(* Reading a row of the table back.  A row line is                         *)
(*   '|' label cells  "    " '|' value cells  "    " address               *)
(* where every cell ends with '|'.                                         *)
(***************************************************************************)
\* The line holds a block of values after its labels.
HasDivider(l) == \E d \in 1..(Len(l) - 1) : l[d] = "    " /\ l[d + 1] = "|"

Divider(l) ==
    CHOOSE d \in 1..(Len(l) - 1) :
        /\ l[d] = "    " /\ l[d + 1] = "|"
        /\ \A e \in 1..(d - 1) : ~(l[e] = "    " /\ l[e + 1] = "|")

AddressStart(l) ==
    CHOOSE e \in 1..Len(l) :
        l[e] = "    " /\ \A f \in (e + 1)..Len(l) : l[f] # "    "

LabelBlock(l) == SubSeq(l, 1, Divider(l) - 1)
ValueBlock(l) == SubSeq(l, Divider(l) + 1, AddressStart(l) - 1)
AddressOf(l) == SubSeq(l, AddressStart(l) + 1, Len(l))

\* A block opens with '|' and its last cell is closed by '|'.
WellFormedBlock(b) == Len(b) >= 1 /\ b[1] = "|" /\ b[Len(b)] = "|"

RECURSIVE CellsOf(_)
\* The cells of a sequence of tokens in which every cell ends with '|'.
CellsOf(s) ==
    IF \A k \in 1..Len(s) : s[k] # "|" THEN <<>>
    ELSE LET b == CHOOSE k \in 1..Len(s) :
                      s[k] = "|" /\ \A e \in 1..(k - 1) : s[e] # "|"
         IN  << SubSeq(s, 1, b - 1) >> \o CellsOf(SubSeq(s, b + 1, Len(s)))

\* The cells of a well-formed block, without their '|'.
Cells(b) == CellsOf(Tail(b))

RECURSIVE CellWidth(_)
\* The number of characters of a cell.
CellWidth(c) == IF c = <<>> THEN 0 ELSE Len(Head(c)) + CellWidth(Tail(c))

\* What a cell holds between its padding.
CellContent(c) == SelectSeq(c, LAMBDA t : t # " ")

\* The specs of a layout that lie in window w.
WindowSpecs(layout, w) ==
    SelectSeq(layout, LAMBDA bf : bf.size # 5 /\ bf.offset >= w /\ bf.offset < w + 4)

\* A call for a supported header type has returned.
Rendered == pc = "done" /\ hdr \in {0, 1}

\* The line of window number k (window k is at offset 4k) in the output.
RowLine(k) == out[4 + 2 * k]

\* The fields of window number k as rendered: label and value of each cell.
RenderedFields(k) ==
    LET lab == Cells(LabelBlock(RowLine(k)))
        val == Cells(ValueBlock(RowLine(k)))
    IN  [j \in 1..Len(val) |-> << CellContent(lab[j]), CellContent(val[j]) >>]

RECURSIVE RenderedUpTo(_)
\* The fields of the windows 0 .. k, in window and column order.
RenderedUpTo(k) ==
    IF k < 0 THEN <<>> ELSE RenderedUpTo(k - 1) \o RenderedFields(k)

(***************************************************************************)
(* C7.  End-to-end Type-0 decode of the documented sample device: with     *)
(* header type 0 and the raw dwords 0x100910B5, 0x00100007, 0x088000B0,    *)
(* 0x00000008, 0xC2000000, 0 (0x14..0x28), 0x978110B5 at 0x00..0x2C the    *)
(* rendered values are, in window and column order, Vendor ID 0x10B5,      *)
(* Device ID 0x1009, Command 0x0007, Status 0x0010, Revision ID 0xB0,      *)
(* Class Code 0x000880, Cache Line S 0x08, Lat. Timer 0x00, Header Type    *)
(* 0x00, BIST 0x00, BAR 0 0xC2000000, BAR 1..5 0x00000000, Cardbus CIS     *)
(* Pointer 0x00000000, Subsystem Vendor ID 0x10B5, Subsystem ID 0x9781.    *)
(***************************************************************************)
F(n, v) == << <<n>>, v >>

SampleDwords ==
    << U32(\h1009, \h10B5), U32(\h0010, \h0007), U32(\h0880, \h00B0),
       U32(\h0000, \h0008), U32(\hC200, \h0000), U32(\h0000, \h0000),
       U32(\h0000, \h0000), U32(\h0000, \h0000), U32(\h0000, \h0000),
       U32(\h0000, \h0000), U32(\h0000, \h0000), U32(\h9781, \h10B5) >>

SampleFields ==
    <<
       F("Vendor ID",            <<"0", "x", "1", "0", "B", "5">>),
       F("Device ID",            <<"0", "x", "1", "0", "0", "9">>),
       F("Command",              <<"0", "x", "0", "0", "0", "7">>),
       F("Status",               <<"0", "x", "0", "0", "1", "0">>),
       F("Revision ID",          <<"0", "x", "B", "0">>),
       F("Class Code",           <<"0", "x", "0", "0", "0", "8", "8", "0">>),
       F("Cache Line S",         <<"0", "x", "0", "8">>),
       F("Lat. Timer",           <<"0", "x", "0", "0">>),
       F("Header Type",          <<"0", "x", "0", "0">>),
       F("BIST",                 <<"0", "x", "0", "0">>),
       F("BAR 0",                <<"0", "x", "C", "2", "0", "0", "0", "0", "0", "0">>),
       F("BAR 1",                <<"0", "x", "0", "0", "0", "0", "0", "0", "0", "0">>),
       F("BAR 2",                <<"0", "x", "0", "0", "0", "0", "0", "0", "0", "0">>),
       F("BAR 3",                <<"0", "x", "0", "0", "0", "0", "0", "0", "0", "0">>),
       F("BAR 4",                <<"0", "x", "0", "0", "0", "0", "0", "0", "0", "0">>),
       F("BAR 5",                <<"0", "x", "0", "0", "0", "0", "0", "0", "0", "0">>),
       F("Cardbus CIS Pointer",  <<"0", "x", "0", "0", "0", "0", "0", "0", "0", "0">>),
       F("Subsystem Vendor ID",  <<"0", "x", "1", "0", "B", "5">>),
       F("Subsystem ID",         <<"0", "x", "9", "7", "8", "1">>)
    >>

C7_SampleEndpointDecode ==
    (pc = "done" /\ hdr = 0 /\ SubSeq(Space, 1, 12) = SampleDwords) =>
        RenderedUpTo(11) = SampleFields

\* The user-space program has rendered the sample endpoint.
C7_Witness ==
    /\ unit = "user" /\ pc = "done" /\ hdr = 0
    /\ SubSeq(Space, 1, 12) = SampleDwords
    /\ Len(out) = 35

(***************************************************************************)
(* C8.  Rendering is deterministic and stateless across calls: two calls   *)
(* of print_pci_header with the same header type and the same 16 raw       *)
(* dwords emit identical character sequences; no cursor, buffer or other   *)
(* state of the first call influences the second.                          *)
(* Every call after the first starts with the locals the call before it    *)
(* left behind (all but the two the declarations initialise).              *)
(***************************************************************************)
C8_SameOutputOnEveryCall ==
    (pc = "done" /\ call > 1) => (out = prev_out /\ line = <<>>)

\* A second call has rendered a whole table.
C8_Witness ==
    /\ pc = "done" /\ call = 2 /\ hdr \in {0, 1}
    /\ Len(out) = 35
    /\ str_value # <<>>

(***************************************************************************)
(* C9.  For a supported header type the output is: one banner line, one    *)
(* separator line, then for each of the 16 windows in order 0x00..0x3C     *)
(* four lines in this order: the label line, a separator line, the value   *)
(* line, a separator line.                                                 *)
(***************************************************************************)
\* The names of the fields of both layouts.
FieldNames ==
    {type_0_header[k].name : k \in Fields(type_0_header)}
    \cup {type_1_header[k].name : k \in Fields(type_1_header)}

IsBannerLine(l) == l = << BannerText >>
IsSeparatorLine(l) == Len(l) >= 1 /\ l[1] = SeparatorText
\* A line of label cells only.
IsLabelLine(l) == Len(l) >= 1 /\ l[1] = "|" /\ ~HasDivider(l)
\* A line of value cells only.
IsValueLine(l) ==
    Len(l) >= 1 /\ l[1] = "|" /\ \A j \in 1..Len(l) : l[j] \notin FieldNames

\* The claim as stated, read of the lines that follow the title line.
C9_FourLinesPerWindow ==
    Rendered =>
        LET body == Tail(out)
        IN  /\ Len(body) = 2 + 4 * 16
            /\ IsBannerLine(body[1])
            /\ IsSeparatorLine(body[2])
            /\ \A k \in 0..15 :
                  /\ IsLabelLine(body[3 + 4 * k])
                  /\ IsSeparatorLine(body[4 + 4 * k])
                  /\ IsValueLine(body[5 + 4 * k])
                  /\ IsSeparatorLine(body[6 + 4 * k])

\* The address column of the 16 windows.
WindowAddress ==
    <<
       <<"0", "x", "0", "0">>,
       <<"0", "x", "0", "4">>,
       <<"0", "x", "0", "8">>,
       <<"0", "x", "0", "c">>,
       <<"0", "x", "1", "0">>,
       <<"0", "x", "1", "4">>,
       <<"0", "x", "1", "8">>,
       <<"0", "x", "1", "c">>,
       <<"0", "x", "2", "0">>,
       <<"0", "x", "2", "4">>,
       <<"0", "x", "2", "8">>,
       <<"0", "x", "2", "c">>,
       <<"0", "x", "3", "0">>,
       <<"0", "x", "3", "4">>,
       <<"0", "x", "3", "8">>,
       <<"0", "x", "3", "c">>
    >>

\* The line l is the row of window number k: the labels of the specs of
\* the window, then as many values, then the address of the window.
IsRowLine(l, k) ==
    /\ Len(l) >= 1 /\ l[1] = "|"
    /\ HasDivider(l)
    /\ AddressStart(l) > Divider(l)
    /\ WellFormedBlock(LabelBlock(l))
    /\ WellFormedBlock(ValueBlock(l))
    /\ LET specs == WindowSpecs(TableOf(ptr), 4 * k)
           lab   == Cells(LabelBlock(l))
           val   == Cells(ValueBlock(l))
       IN  /\ Len(lab) = Len(specs)
           /\ Len(val) = Len(specs)
           /\ \A j \in 1..Len(specs) :
                 /\ CellContent(lab[j]) = << specs[j].name >>
                 /\ Len(CellContent(val[j])) = 2 + 2 * specs[j].size
                 /\ SubSeq(CellContent(val[j]), 1, 2) = <<"0", "x">>
    /\ AddressOf(l) = WindowAddress[k + 1]

\* C9 as amended: after the title line come one banner line and one
\* separator line, then for each of the 16 windows in order two lines: the
\* row line, which holds the label row, the value row and the address of
\* the window side by side, and a separator line.
C9_TwoLinesPerWindow ==
    Rendered =>
        /\ Len(out) = 3 + 2 * 16
        /\ out[1][1] = "Selected device "
        /\ IsBannerLine(out[2])
        /\ IsSeparatorLine(out[3])
        /\ \A k \in 0..15 :
              /\ IsRowLine(out[4 + 2 * k], k)
              /\ IsSeparatorLine(out[5 + 2 * k])
        /\ line = <<>>

\* The user-space program has rendered a bridge: window 0x1c holds three
\* labels and three values on one line.
C9_Witness ==
    /\ Rendered /\ unit = "user" /\ ptr = "type_1_header"
    /\ Len(out) = 35
    /\ Len(Cells(LabelBlock(RowLine(7)))) = 3
    /\ Len(Cells(ValueBlock(RowLine(7)))) = 3

(***************************************************************************)
(* C10.  In every window of both layouts each label cell and each value    *)
(* cell occupies exactly 14*width + (width-1) characters between its '|'   *)
(* delimiters (14, 29, 44, 59 for width 1..4), and the label row and the   *)
(* value row of a window have the same number of cells with pairwise equal *)
(* cell widths.                                                            *)
(***************************************************************************)
ColumnWidth == <<14, 29, 44, 59>>

C10_CellWidths ==
    Rendered =>
        \A k \in 0..15 :
            LET specs == WindowSpecs(TableOf(ptr), 4 * k)
                lab   == Cells(LabelBlock(RowLine(k)))
                val   == Cells(ValueBlock(RowLine(k)))
            IN  /\ WellFormedBlock(LabelBlock(RowLine(k)))
                /\ WellFormedBlock(ValueBlock(RowLine(k)))
                /\ Len(lab) = Len(specs)
                /\ Len(val) = Len(lab)
                /\ \A j \in 1..Len(specs) :
                      /\ CellWidth(lab[j]) = ColumnWidth[specs[j].size]
                      /\ CellWidth(val[j]) = ColumnWidth[specs[j].size]
                      /\ CellWidth(lab[j]) = 14 * specs[j].size + (specs[j].size - 1)

\* A rendered table whose window 0x08 holds a cell of width 1 next to a
\* cell of width 3.
C10_Witness ==
    /\ Rendered
    /\ Len(out) = 35
    /\ CellWidth(Cells(LabelBlock(RowLine(2)))[1]) = 14
    /\ CellWidth(Cells(ValueBlock(RowLine(2)))[2]) = 44


(***************************************************************************)
(* C11.  The two layouts agree on every spec with offset below 0x10: the   *)
(* sequences of (name, offset, width) of type_0_header and type_1_header,  *)
(* restricted to the first 16 bytes, are identical element by element.     *)
(* Rendering either layout therefore has the same spec under the cursor    *)
(* in the windows 0x00..0x0C.                                              *)
(***************************************************************************)
\* The specs of a layout in the part of the header every type shares.
CommonPart(layout) == SelectSeq(layout, LAMBDA bf : bf.offset < 16)

\* The layout that ptr does not point to.
OtherLayout == IF ptr = "type_0_header" THEN type_1_header ELSE type_0_header

C11_CommonPartAgrees ==
    ptr \in {"type_0_header", "type_1_header"} =>
        /\ Len(CommonPart(type_0_header)) = Len(CommonPart(type_1_header))
        /\ \A k \in 1..Len(CommonPart(type_0_header)) :
              /\ CommonPart(type_0_header)[k].name = CommonPart(type_1_header)[k].name
              /\ CommonPart(type_0_header)[k].offset = CommonPart(type_1_header)[k].offset
              /\ CommonPart(type_0_header)[k].size = CommonPart(type_1_header)[k].size
        /\ (pc \in {"label", "value"} /\ i < 16 /\ Entry(bitfield).offset < 16) =>
              Entry(bitfield) = OtherLayout[bitfield + 1]

\* The bridge layout is being rendered and the cursor is on BIST, the last
\* spec of the common part.
C11_Witness ==
    /\ ptr = "type_1_header" /\ pc = "value" /\ i = 12
    /\ Entry(bitfield).name = "BIST"
    /\ Len(CommonPart(type_1_header)) = 10


(***************************************************************************)
(* C12.  During one render for a supported header type exactly 16 dword    *)
(* reads are made, one per window, at the offsets 0x00, 0x04, .. 0x3C in   *)
(* strictly increasing order; the read for window w happens after the      *)
(* label row of w has been written and before any value of w is written;   *)
(* no window is read twice or skipped.                                     *)
(***************************************************************************)
\* The offsets of the first n windows.
WindowOffsets(n) == [k \in 1..n |-> 4 * (k - 1)]

\* The layouts ptr can point to.
Layouts == {"type_0_header", "type_1_header"}

C12_OneReadPerWindow ==
    ptr \in Layouts =>
        /\ pc = "loop" => reads = WindowOffsets(i \div 4)
        /\ pc = "label" =>
              /\ reads = WindowOffsets(i \div 4)
              /\ ~HasDivider(line)
        /\ pc = "value" =>
              /\ reads = WindowOffsets(i \div 4 + 1)
              /\ HasDivider(line)
              /\ Len(Cells(LabelBlock(line))) = Len(WindowSpecs(TableOf(ptr), i))
        /\ pc = "done" => reads = WindowOffsets(16)

\* The kernel module has rendered a bridge: the sixteenth read was at 0x3C.
C12_Witness ==
    /\ unit = "kernel" /\ pc = "done" /\ ptr = "type_1_header"
    /\ Len(reads) = 16 /\ reads[16] = \h3C


(***************************************************************************)
(* C13.  The sentinel spec ("End", offset 0x40, width 5) is never          *)
(* rendered: in every window of both layouts the table cursor stops at or  *)
(* before the sentinel's index (it never reads past the end of the         *)
(* table), no label row contains the sentinel's name, and int_2_hexstr and *)
(* the mask extraction are never executed with width 5 (the break on       *)
(* width 5 in the value loop is never taken with the two built-in          *)
(* layouts).                                                               *)
(***************************************************************************)
\* The index (from 0, as the cursor counts) of the sentinel of a layout.
SentinelIndex(layout) == Len(layout) - 1

\* The text holds the token t.
Written(t) ==
    \/ \E k \in 1..Len(line) : line[k] = t
    \/ \E l \in 1..Len(out) : \E k \in 1..Len(out[l]) : out[l][k] = t

C13_SentinelNeverRendered ==
    ptr \in Layouts =>
        /\ bitfield <= SentinelIndex(TableOf(ptr))
        /\ TableOf(ptr)[SentinelIndex(TableOf(ptr)) + 1] = BF("End", \h40, 5)
        /\ (pc \in {"label", "value"} /\ InWindow) => Entry(bitfield).size # 5
        /\ ~Written("End")
        /\ (pc = "value" /\ bitfield > bf2) =>
              /\ Entry(bitfield - 1).size \in 1..4
              /\ Len(str_value) = 2 + 2 * Entry(bitfield - 1).size

\* The user-space program has rendered an endpoint: the cursor rests on the
\* sentinel and the last value written was Max Lat.
C13_Witness ==
    /\ unit = "user" /\ pc = "done" /\ ptr = "type_0_header"
    /\ bitfield = SentinelIndex(type_0_header)
    /\ Entry(bitfield).size = 5
    /\ Len(out) = 35 /\ Len(str_value) = 4


(***************************************************************************)
(* C14.  Run grouping: at the start of each window w the cursor points at  *)
(* the first spec with offset >= w, and both the label loop and the value  *)
(* loop of w process exactly the contiguous specs with offset in           *)
(* [w, w+4); consequently every non-sentinel spec of the layout appears in *)
(* exactly one label row and exactly one value row, in table order.        *)
(***************************************************************************)
\* Cursor c (counted from 0) is on the first spec of the layout at or after w.
PointsAtFirst(layout, c, w) ==
    /\ layout[c + 1].offset >= w
    /\ \A k \in 1..c : layout[k].offset < w

\* The names a sequence of specs has, each as a cell holds it.
NameCells(specs) == [k \in 1..Len(specs) |-> << specs[k].name >>]

\* What a sequence of cells holds.
Contents(cells) == [k \in 1..Len(cells) |-> CellContent(cells[k])]

\* The value cells written so far on a line that has its divider.
ValuesSoFar(l) == CellsOf(SubSeq(l, Divider(l) + 2, Len(l)))

C14_RunGrouping ==
    ptr \in Layouts =>
        LET T  == TableOf(ptr)
            WS == WindowSpecs(T, i)
        IN  /\ pc = "loop" => PointsAtFirst(T, bitfield, i)
            /\ pc \in {"label", "value"} =>
                  /\ PointsAtFirst(T, bf2, i)
                  /\ SubSeq(T, bf2 + 1, bf2 + Len(WS)) = WS
                  /\ bitfield \in bf2..(bf2 + Len(WS))
            /\ pc = "label" =>
                  Contents(Cells(line)) = NameCells(SubSeq(T, bf2 + 1, bitfield))
            /\ pc = "value" =>
                  /\ Contents(Cells(LabelBlock(line))) = NameCells(WS)
                  /\ Len(ValuesSoFar(line)) = bitfield - bf2
            /\ (pc = "done" /\ Len(out) = 35) =>
                  /\ \A k \in 0..15 :
                        /\ Contents(Cells(LabelBlock(RowLine(k)))) = NameCells(WindowSpecs(T, 4 * k))
                        /\ Len(Cells(ValueBlock(RowLine(k)))) = Len(WindowSpecs(T, 4 * k))
                  /\ [k \in 1..Len(RenderedUpTo(15)) |-> RenderedUpTo(15)[k][1]]
                        = NameCells(SubSeq(T, 1, SentinelIndex(T)))

\* The value loop of window 0x0C of a bridge has written three of its four
\* values: the run of the window began at Cache Line S.
C14_Witness ==
    /\ ptr = "type_1_header" /\ pc = "value" /\ i = 12
    /\ Entry(bf2).name = "Cache Line S"
    /\ bitfield = bf2 + 3
    /\ Len(ValuesSoFar(line)) = 3


(***************************************************************************)
(* C15.  Value centering: in every value cell the formatted hex string     *)
(* (length 2 + 2*width) is centered in the cell of width                   *)
(* A = 14*width + width - 1: the number of spaces to its left is           *)
(* (A - length) / 2 (integer division) and the number to its right is the  *)
(* remainder, so left and right padding differ by at most one.             *)
(***************************************************************************)
RECURSIVE LeftSpaces(_)
\* The number of spaces a cell begins with.
LeftSpaces(c) ==
    IF c # <<>> /\ Head(c) = " " THEN 1 + LeftSpaces(Tail(c)) ELSE 0

RECURSIVE RightSpaces(_)
\* The number of spaces a cell ends with.
RightSpaces(c) ==
    IF c # <<>> /\ c[Len(c)] = " "
    THEN 1 + RightSpaces(SubSeq(c, 1, Len(c) - 1)) ELSE 0

\* The content of cell c of a spec of the given width is centered: what
\* the cell width leaves is split in halves, the odd space going right.
Centered(c, width) ==
    LET A      == 14 * width + width - 1
        length == CellWidth(CellContent(c))
        left   == LeftSpaces(c)
        right  == RightSpaces(c)
    IN  /\ left = (A - length) \div 2
        /\ right = (A - length) - left
        /\ right - left \in {0, 1}

\* The value cell the value loop wrote last.
LastValueCell == ValuesSoFar(line)[bitfield - bf2]

C15_ValueCentered ==
    (ptr \in Layouts /\ pc = "value" /\ bitfield > bf2) =>
        /\ Len(CellContent(LastValueCell)) = 2 + 2 * Entry(bitfield - 1).size
        /\ Centered(LastValueCell, Entry(bitfield - 1).size)


(***************************************************************************)
(* C16.  Label centering: in every label cell the field name is preceded   *)
(* by (A - len) / 2 spaces (integer division) and followed by              *)
(* A - len - (A - len) / 2 spaces, where A = 14*width + width - 1 and len  *)
(* is the length of the name; the right padding is equal to or one more    *)
(* than the left padding.                                                  *)
(***************************************************************************)
\* The label cell the label loop wrote last.
LastLabelCell == Cells(line)[bitfield - bf2]

C16_LabelCentered ==
    /\ (ptr \in Layouts /\ pc = "label" /\ bitfield > bf2) =>
          /\ CellContent(LastLabelCell) = << Entry(bitfield - 1).name >>
          /\ Centered(LastLabelCell, Entry(bitfield - 1).size)
    /\ (ptr \in Layouts /\ pc = "done" /\ Len(out) = 35) =>
          \A k \in 0..15 :
              LET lab == Cells(LabelBlock(RowLine(k)))
                  WS  == WindowSpecs(TableOf(ptr), 4 * k)
              IN  \A j \in 1..Len(lab) : Centered(lab[j], WS[j].size)

\* The label loop has just written "Cardbus CIS Pointer" (19 characters in
\* 59: 20 spaces to the left, 20 to the right).
C16_Witness ==
    /\ ptr = "type_0_header" /\ pc = "label" /\ bitfield > bf2
    /\ Entry(bitfield - 1).name = "Cardbus CIS Pointer"
    /\ LeftSpaces(LastLabelCell) = 20 /\ RightSpaces(LastLabelCell) = 20


(***************************************************************************)
(* C17.  In both layouts the specs are in strictly ascending order of      *)
(* offset, every non-sentinel spec has a width in {1, 2, 3, 4} and an      *)
(* offset below 0x40, and exactly one spec has width 5: it is the last     *)
(* entry and its offset is 0x40.                                           *)
(***************************************************************************)
WellFormedLayout(layout) ==
    /\ \A k \in 1..(Len(layout) - 1) : layout[k].offset < layout[k + 1].offset
    /\ \A k \in 1..Len(layout) :
          layout[k].size # 5 => (layout[k].size \in 1..4 /\ layout[k].offset < \h40)
    /\ Cardinality({k \in 1..Len(layout) : layout[k].size = 5}) = 1
    /\ layout[Len(layout)].size = 5
    /\ layout[Len(layout)].offset = \h40

C17_LayoutsWellFormed ==
    \A p \in Layouts : ptr = p => WellFormedLayout(TableOf(p))

\* The kernel module has gone through the whole bridge layout, 34 specs and
\* the sentinel.
C17_Witness ==
    /\ unit = "kernel" /\ ptr = "type_1_header" /\ pc = "done"
    /\ bitfield = 34 /\ Len(type_1_header) = 35 /\ Len(type_0_header) = 28
    /\ Entry(bitfield).offset = \h40


(***************************************************************************)
(* C18.  With the built-in layouts no field name exceeds its column: for   *)
(* every spec length(name) <= 14*width + width - 1, so the unsigned        *)
(* padding computation never wraps.                                        *)
(***************************************************************************)
C18_NamesFitColumns ==
    \A p \in Layouts : ptr = p =>
        /\ \A k \in 1..Len(TableOf(p)) :
              LET bf == TableOf(p)[k]
              IN  /\ Len(bf.name) <= 14 * bf.size + bf.size - 1
                  /\ SpaceAvailable(bf.size) - strlen(bf.name) >= 0
                  /\ LabelPadding(bf) >= 0
        /\ (pc = "label" /\ bitfield > bf2) =>
              CellWidth(LastLabelCell) = SpaceAvailable(Entry(bitfield - 1).size)

\* The label loop has just written "Secondary Bus", 13 characters in a
\* column of 14: no space to the left, one to the right.
C18_Witness ==
    /\ ptr = "type_1_header" /\ pc = "label" /\ bitfield > bf2
    /\ Entry(bitfield - 1).name = "Secondary Bus"
    /\ LabelPadding(Entry(bitfield - 1)) = 0
    /\ CellWidth(LastLabelCell) = 14


(***************************************************************************)
(* C19.  The mask arithmetic stays inside the 64-bit intermediate: for     *)
(* every non-sentinel spec of both layouts, with w the base of its window, *)
(* 8*width + 8*(offset - w) <= 63, so the mask computed modulo 2^64 equals *)
(* its mathematical value (2^(8*width) - 1) * 2^(8*(offset - w)), and the  *)
(* extracted value is below 2^(8*width).                                   *)
(***************************************************************************)
\* (2^(8*n) - 1) * 2^(8*s) as a number of 64 bits, when it is one:
\* 2*n nibbles of ones above 2*s nibbles of zeros.
ExactMask(n, s) ==
    [k \in 1..NibblesU64 |-> IF k > 2 * s /\ k <= 2 * s + 2 * n THEN 15 ELSE 0]

\* The base of the window a spec is rendered in.
WindowOf(bf) == 4 * (bf.offset \div 4)

\* v, a uint32_t, is below 2^(8*n).
Below(v, n) == \A k \in (2 * n + 1)..NibblesU32 : v[k] = 0

C19_MaskWithin64Bits ==
    \A p \in Layouts : ptr = p =>
        /\ \A k \in Fields(TableOf(p)) :
              LET bf == TableOf(p)[k]
              IN  /\ 8 * bf.size + 8 * (bf.offset - WindowOf(bf)) <= 63
                  /\ Mask(bf, WindowOf(bf)) = ExactMask(bf.size, bf.offset - WindowOf(bf))
        /\ (pc = "value" /\ bitfield > bf2) =>
              LET bf == Entry(bitfield - 1)
              IN  /\ WindowOf(bf) = i
                  /\ Mask(bf, i) = ExactMask(bf.size, bf.offset - i)
                  /\ bf_value = ExtractBitfield(value, bf, i)
                  /\ Below(bf_value, bf.size)

\* Class Code of an all-ones device has been extracted: the mask reaches
\* bit 39, the value is 0x00FFFF.
C19_Witness ==
    /\ ptr \in Layouts /\ pc = "value" /\ bitfield > bf2
    /\ Entry(bitfield - 1).name = "Class Code"
    /\ value = U32(\hFFFF, \hFFFF)
    /\ 8 * Entry(bitfield - 1).size + 8 * (Entry(bitfield - 1).offset - i) = 40
    /\ bf_value = U32(\h0000, \hFFFF)


(***************************************************************************)
(* C20.  isMemory64bit(bar) returns T exactly when bit 0 of bar is 0 (a    *)
(* memory BAR) and bits 2:1 of bar equal binary 10 (the 64-bit type); it   *)
(* returns F for every I/O BAR and for memory BARs whose bits 2:1 are 00   *)
(* (32-bit) or 01 (reserved).                                              *)
(***************************************************************************)
\* Bit 0 and bits 2:1 of a BAR value.
Bit0(b) == b[1] % 2
Bits21(b) == (b[1] \div 2) % 4

C20_Memory64bitOnlyForType10 ==
    (unit = "p2sb" /\ is64 # "none") =>
        /\ is64 = "T" <=> (Bit0(bar) = 0 /\ Bits21(bar) = 2)
        /\ Bit0(bar) = 1 => is64 = "F"
        /\ (Bit0(bar) = 0 /\ Bits21(bar) \in {0, 1}) => is64 = "F"


(***************************************************************************)
(* C21.  The sub-dword config readers select from the dword-aligned        *)
(* register: for every reg in 0..255, pci_cfg_reg_read_dword addresses     *)
(* reg & 0xFC; pci_cfg_reg_read_byte returns byte (reg mod 4) of that      *)
(* dword; pci_cfg_reg_read_word returns its low 16 bits when bit 1 of reg  *)
(* is 0 and its high 16 bits when bit 1 is 1 (reg 0x0e on the dword        *)
(* 0x00010008 gives dword 0x00010008, word 0x0001, byte 0x01).             *)
(***************************************************************************)
\* Byte j (0 the least significant) of a dword.
ByteOf(d, j) == d[2 * j + 1] + 16 * d[2 * j + 2]

\* The dword of the 256 bytes that holds the byte at address reg.
AlignedDword(reg) == FullSpace(Devices[device].cfg)[reg \div 4 + 1]

C21_SubDwordReaders ==
    (unit = "regs" /\ r_reg >= 0) =>
        /\ r_dword = AlignedDword(r_reg)
        /\ r_byte = ByteOf(r_dword, r_reg % 4)
        /\ (r_reg \div 2) % 2 = 0 => r_word = ByteOf(r_dword, 0) + 256 * ByteOf(r_dword, 1)
        /\ (r_reg \div 2) % 2 = 1 => r_word = ByteOf(r_dword, 2) + 256 * ByteOf(r_dword, 3)
        /\ (r_reg = \h0E /\ r_dword = U32(\h0001, \h0008)) =>
              (r_word = \h0001 /\ r_byte = \h01)

\* Register 0x0e of the sample bridge has been read, as in the sample
\* output.
C21_Witness ==
    /\ unit = "regs" /\ r_reg = \h0E
    /\ Devices[device] = SampleBridge
    /\ r_dword = U32(\h0001, \h0008) /\ r_word = 1 /\ r_byte = 1


(***************************************************************************)
(* C22.  CMOS read atomicity under concurrency: when several threads       *)
(* concurrently read different offsets through the MY_DEV_READ ioctl or    *)
(* my_dev_read0, each reader gets the data byte of the offset it wrote to  *)
(* the index port; no other reader's write to the index port (0x72) can    *)
(* occur between a reader's outb(index) and its inb(data) (0x73).          *)
(***************************************************************************)
\* Context c is in my_dev_read0 or in the MY_DEV_READ branch of the ioctl.
LockedReader(c) ==
    \/ t_op[c] = "my_dev_read0"
    \/ t_op[c] = "ioctl" /\ t_cmd[c] = "MY_DEV_READ"

\* Context c is in my_dev_write0 or in the MY_DEV_WRITE branch of the ioctl.
LockedWriter(c) ==
    \/ t_op[c] = "my_dev_write0"
    \/ t_op[c] = "ioctl" /\ t_cmd[c] = "MY_DEV_WRITE"

\* Context c has written the index port and not yet accessed the data port.
BetweenPorts(c) == t_pc[c] \in {"inb", "outb"}

\* This step is the write of context d to the index port.
WritesIndex(d) == t_pc[d] = "index" /\ t_pc'[d] \in {"inb", "outb"}

\* This step is the read of the data port by context c.
ReadsData(c) == t_pc[c] = "inb" /\ t_pc'[c] # "inb"

C22_ReadersAtomic ==
    [][\A c \in Ctx : LockedReader(c) =>
          /\ \A d \in Ctx \ {c} :
                (BetweenPorts(c) /\ LockedReader(d) /\ t_off[d] # t_off[c])
                    => ~WritesIndex(d)
          /\ (ReadsData(c) /\ \A d \in Ctx \ {c} : t_op[d] = "none" \/ LockedReader(d))
                => t_got'[c] = t_off[c]]_vars


(***************************************************************************)
(* C23.  Every access to the extended-CMOS index/data port pair made by    *)
(* the driver (ioctl read/write, the exported my_dev_read0/my_dev_write0,  *)
(* and the sysfs attribute show/store handlers for 0x7E and 0x7F) is       *)
(* performed while holding my_dev_lock, so a write's outb(index) /         *)
(* outb(data) pair can never interleave with another access to the ports.  *)
(***************************************************************************)
\* Context c holds my_dev_lock, for reading or for writing.
Holds(c) == c \in rw_readers \/ rw_writer = c

\* The next step of context c is an access to one of the two ports.
AtPortAccess(c) == t_pc[c] \in {"index", "inb", "outb"}

C23_PortsOnlyUnderLock ==
    \A c \in Ctx :
        /\ AtPortAccess(c) => Holds(c)
        /\ t_pc[c] = "outb" =>
              /\ cmos_index = t_off[c]
              /\ \A d \in Ctx \ {c} : ~BetweenPorts(d)


(***************************************************************************)
(* C24.  The NMI handler my_nmi_test always terminates and returns         *)
(* NMI_DONE, whatever code it interrupts: in particular when the NMI       *)
(* arrives on a CPU that is inside my_dev_write0 or the MY_DEV_WRITE ioctl *)
(* holding my_dev_lock for writing, its three my_dev_read0 calls still     *)
(* complete.                                                               *)
(***************************************************************************)
\* my_nmi_test has been entered and has not returned.
NmiRunning == t_pc["nmi"] # "idle"

\* my_nmi_test has returned NMI_DONE.
NmiDone == t_pc["nmi"] = "idle" /\ t_ret["nmi"] = "NMI_DONE"

C24_NmiHandlerReturns == NmiRunning ~> NmiDone


(***************************************************************************)
(* C25.  my_dev_lock is balanced on every path: each return from           *)
(* my_dev_ioctl, my_dev_read0 and my_dev_write0 (including the -EFAULT     *)
(* returns and the unsupported-command return) leaves the lock not held by *)
(* the caller, and copy_from_user / copy_to_user are never executed while  *)
(* the lock is held.                                                       *)
(***************************************************************************)
\* The positions between taking the lock and releasing it.
LockedPositions == {"index", "inb", "outb", "runlock", "wunlock"}

C25_LockBalanced ==
    \A c \in Ctx :
        /\ t_pc[c] \in {"idle", "returned"} => ~Holds(c)
        /\ t_pc[c] \in {"copy_in", "copy_out"} => ~Holds(c)
        /\ Holds(c) =>
              /\ LockedReader(c) \/ LockedWriter(c)
              /\ t_pc[c] \in LockedPositions
        /\ c \in rw_readers => rw_writer = "none"
        /\ rw_writer = c => rw_readers = {}

\* A MY_DEV_READ ioctl has read the byte, released the lock, and returned
\* -EFAULT from its copy_to_user, while the other task holds the lock.
C25_Witness ==
    /\ unit = "cmos"
    /\ t_op["t1"] = "ioctl" /\ t_cmd["t1"] = "MY_DEV_READ"
    /\ t_pc["t1"] = "returned" /\ t_ret["t1"] = "-EFAULT" /\ t_got["t1"] = t_off["t1"]
    /\ ~Holds("t1") /\ rw_writer = "t2"


(***************************************************************************)
(* C26.  my_dev_probe is all-or-nothing: whenever it returns an error (I/O *)
(* region busy, or register_chrdev failure), everything it acquired before *)
(* the failure has been released again: neither the I/O port region        *)
(* 0x72-0x73 nor the NMI handler "my_nmi_test" remains registered.         *)
(***************************************************************************)
\* my_dev_probe has returned an error.
ProbeFailed == p_pc = "returned" /\ p_ret \in {"-EBUSY", "retval"}

C26_ProbeAllOrNothing ==
    ProbeFailed => (~region /\ ~nmi_handler /\ ~chrdev /\ ~sysfs)


(***************************************************************************)
(* C27.  Sequential reads of /dev/my-dev on one open file, each with any   *)
(* count >= 1 and starting at offset 0, deliver the 15-byte message        *)
(* "My device read\n" exactly once: the bytes returned until the first 0   *)
(* (end-of-file) return, concatenated, are the message; a read at offset k *)
(* returns bytes starting at position k of the message; every read at an   *)
(* offset >= 15 returns 0.                                                 *)
(***************************************************************************)
\* The last read succeeded and returned bytes.
ReadReturnedBytes == f_called /\ ~f_err /\ f_ret > 0

C27_MessageOnce ==
    /\ f_eof => f_recv = data
    /\ ReadReturnedBytes =>
          /\ f_at + f_ret <= datalen
          /\ f_got = SubSeq(data, f_at + 1, f_at + f_ret)
    /\ (f_called /\ ~f_err /\ f_at >= datalen) => f_ret = 0


(***************************************************************************)
(* C28.  Hide/unhide pairing in p2sb_dev: on every return path taken after *)
(* the P2SB device has been unhidden (setpci E1.B=00:01), the failure      *)
(* returns for open, fstat, mmap, mlock and munlock included, the device   *)
(* has been hidden again (setpci E1.B=01:01) and the resource file         *)
(* descriptor and the mapping have been released.                          *)
(***************************************************************************)
\* p2sb_dev has returned, and had unhidden the device before.
ReturnedAfterUnhide == d_pc = "returned" /\ unhidden

C28_HideUnhidePaired ==
    ReturnedAfterUnhide => (hidden /\ ~fd_open /\ ~mapped)

=============================================================================
